---- MODULE Spec2Model ----
(***************************************************************************)
(* A model of the structured-logging pipeline of litaibai1201/loggers:     *)
(*   - the context store (structlog contextvars) and its propagation into  *)
(*     threads (src/core/context.py, src/core/context_propagation.py),     *)
(*   - the facade log call and the validator (src/core/context.py,         *)
(*     src/core/logger.py),                                                *)
(*   - the queued delivery pipeline (src/core/logger.py on top of the      *)
(*     standard library's QueueHandler / QueueListener),                   *)
(*   - the rotating, archiving file handler (src/core/handlers.py).        *)
(* Each part has its own next-state relation and specification; the        *)
(* variables of the other parts stay unchanged under it.                   *)
(***************************************************************************)
EXTENDS Integers, Sequences, FiniteSets, TLC

VARIABLES
  \* ---- context store and propagation ----
  thread_init,          \* what threading.Thread.__init__ currently is
  propagation_enabled,  \* context.py: _propagation_enabled
  status,               \* thread -> "unborn" | "created" | "running"
  ctxOf,                \* thread -> the Context object its code runs in
  heap,                 \* Context object -> its bindings (key -> value)
  expected,             \* ghost: thread -> the bindings it must see, from its
                        \*        snapshot and its own operations alone
  propagated,           \* ghost: thread -> it was created with a snapshot
  nextUuid,             \* number of uuid4() values drawn so far
  op,                   \* ghost: the last operation, its thread and outcome
  lastRec,              \* ghost: thread -> last record emitted since its last
                        \*        clear_context / set_*_id, or NoRec
  explicitIds,          \* ghost: thread -> ids set explicitly since the last clear
  steps,                \* number of context-store operations performed
  \* ---- queued delivery ----
  queue_size,           \* LOGGING_CONFIG['queue_size']
  log_queue,            \* the Queue: records and the sentinel, oldest first
  submitted,            \* ghost: records handed to the QueueHandler so far
  discarded,            \* ghost: records the QueueHandler dropped (queue.Full)
  sinkRecv,             \* sink -> sequence of records the worker forwarded
  workerPc,             \* "waiting" | "handling" | "stopped"
  workerRec,            \* the record the worker holds while handling
  queue_listener,       \* logger.py: _queue_listener ("none" | "listener")
  hookPc,               \* _stop_queue_listener: "idle"|"joining"|"done"|"raised"
  atHook,               \* ghost: records enqueued when the hook started
  sinkStalled,          \* a sink's handle() call never returns
  \* ---- rotating archival sink ----
  backupCount,          \* base name -> retention count
  logdir,               \* the working directory: set of files
  archive,              \* the archive directory: set of files
  clock,                \* modification-time source
  period,               \* index of the current rotation interval (day)
  intervalStart,        \* base name -> interval its rolloverAt - interval lies in
  rollovers,            \* ghost: base name -> number of rollovers performed
  rotated,              \* ghost: base name -> mtimes of the rotated files, in order
  rollResult,           \* ghost: how the last doRollover ended, and the calls that failed in it
  \* ---- configuration ----
  yamlUse,              \* logging.yaml: use_queue_handler ("absent" when not set)
  asyncLoaded,          \* an asynchronous runtime is in sys.modules
  handlersOf,           \* logger name -> logging.getLogger(name).handlers
  cfgListener,          \* logger.py: _queue_listener is not None
  listenerHandlers,     \* the handlers the QueueListener forwards to
  cfgQueueId,           \* identity of the listener's Queue (its QueueHandler)
  cfgQueue,             \* that Queue: records and the sentinel
  workerAlive,          \* the listener thread is running
  workerAt,             \* handlers the worker has yet to call for its record
  callerAt,             \* caller -> handlers its log call has yet to call
  callerQueued,         \* ghost: caller -> its log call began in queued mode
  writing,              \* handler.handle calls in progress: [h, by, queued]
  cfgPc,                \* configure_logger: "idle" | "stopping"
  mode,                 \* ghost: "none" | "sync" | "configuring" | "queued"
  lastCfg,              \* ghost: argument and selection of the last configure_logger
  cfgOps,               \* ghost: calls made so far, by kind
  \* ---- one facade call, argument by argument ----
  call,                 \* the arguments of the log call
  result,               \* what _log made of them: category, event, emitted
  \* ---- stack parser ----
  exc,                  \* the exception given to format_for_elk, or NoExc
  tb,                   \* the traceback text, line by line
  cap,                  \* max_frames: [set, k]
  out,                  \* the value the parser function returned, or NoOut
  \* ---- Flask request hooks ----
  reqCtx,               \* bindings of the Context the handling thread runs in
  reqNo,                \* number of the request being handled (0: none yet)
  reqPc,                \* "idle" | "view" | "after" | "teardown"
  reqOutcome,           \* the request's outcome: "none" | "ok" | "failed"
  reqPrev,              \* ghost: the previous request: its outcome and the
                        \*        bindings its teardown found (cleared ones aside)
  reqRecords,           \* ghost: the records emitted during the request
  reqUuid,              \* number of uuid4() values drawn so far
  reqBound,             \* ghost: <<key, value>> bound during the request
  reqSteps,             \* operations of the view function so far
  reqSql,               \* the statement being executed and, as a ghost, the
                        \* bindings before its "before" event and the last
                        \* listener called; reset by the next operation
  \* ---- thread pools ----
  poolPatched,          \* threading.Thread.__init__ is the context-aware wrapper
  poolAware,            \* the executor is a ContextAwareThreadPoolExecutor
  max_workers,          \* the executor's max_workers
  parentCtx,            \* submitting thread -> its bindings
  workerCtx,            \* worker -> the bindings its tasks run in
  workerState,          \* worker -> "none" (not created) | "alive"
  idle_semaphore,       \* ThreadPoolExecutor._idle_semaphore
  work_queue,           \* ThreadPoolExecutor._work_queue: task ids, oldest first
  tasks,                \* task id -> what was submitted, and by whom
  future,               \* task id -> what its Future holds
  ran,                  \* ghost: task id -> worker, bindings observed on entry
  workerDirty,          \* ghost: worker -> its last clear_context() failed
  \* ---- module-level propagation switch ----
  context_propagation_enabled,  \* context_propagation.py: _context_propagation_enabled
  \* ---- the error channel of the validator ----
  errorHandlers,        \* formatter kinds of the handlers logger my.custom.error reaches
  diagPending,          \* diagnostic entries handed to a handler, not yet formatted
  diagCalls,            \* error_logger.error(...) calls since the last facade record
  diagWritten,          \* ghost: diagnostic entries written since the last facade record
  diagEmits,            \* facade records so far
  \* ---- request bodies ----
  body,                 \* request -> the body it was sent with
  logged                \* request -> the body in its pre-handling record

ctxVars == <<thread_init, propagation_enabled, status, ctxOf, heap, expected,
             propagated, nextUuid, op, lastRec, explicitIds, steps>>
queueVars == <<queue_size, log_queue, submitted, discarded, sinkRecv, workerPc,
               workerRec, queue_listener, hookPc, atHook, sinkStalled>>
rotVars == <<backupCount, logdir, archive, clock, period, intervalStart, rollovers,
             rotated, rollResult>>
cfgVars == <<yamlUse, asyncLoaded, handlersOf, cfgListener,
             listenerHandlers, cfgQueueId, cfgQueue, workerAlive, workerAt,
             callerAt, callerQueued, writing, cfgPc, mode, lastCfg, cfgOps>>
callVars == <<call, result>>
traceVars == <<exc, tb, cap, out>>
reqVars == <<reqCtx, reqNo, reqPc, reqOutcome, reqPrev, reqRecords, reqUuid, reqBound, reqSteps, reqSql>>
poolVars == <<poolPatched, poolAware, max_workers, parentCtx, workerCtx, workerState,
              idle_semaphore, work_queue, tasks, future, ran, workerDirty>>
propVars == <<context_propagation_enabled>>
diagVars == <<errorHandlers, diagPending, diagCalls, diagWritten, diagEmits>>
bodyVars == <<body, logged>>
vars == <<ctxVars, queueVars, rotVars, cfgVars, callVars, traceVars, reqVars, poolVars,
          propVars, diagVars, bodyVars>>

\* What an operation of one part leaves alone: the other parts.
OnlyCtx == UNCHANGED <<queueVars, rotVars, cfgVars, callVars, traceVars, reqVars, poolVars, propVars, diagVars, bodyVars>>
OnlyQueue == UNCHANGED <<ctxVars, rotVars, cfgVars, callVars, traceVars, reqVars, poolVars, propVars, diagVars, bodyVars>>
OnlyRot == UNCHANGED <<ctxVars, queueVars, cfgVars, callVars, traceVars, reqVars, poolVars, propVars, diagVars, bodyVars>>
OnlyCfg == UNCHANGED <<ctxVars, queueVars, rotVars, callVars, traceVars, reqVars, poolVars, propVars, diagVars, bodyVars>>
OnlyCall == UNCHANGED <<ctxVars, queueVars, rotVars, cfgVars, traceVars, reqVars, poolVars, propVars, diagVars, bodyVars>>
OnlyTrace == UNCHANGED <<ctxVars, queueVars, rotVars, cfgVars, callVars, reqVars, poolVars, propVars, diagVars, bodyVars>>
OnlyReq == UNCHANGED <<ctxVars, queueVars, rotVars, cfgVars, callVars, traceVars, poolVars, propVars, diagVars, bodyVars>>
OnlyPool == UNCHANGED <<ctxVars, queueVars, rotVars, cfgVars, callVars, traceVars, reqVars, propVars, diagVars, bodyVars>>
OnlyProp == UNCHANGED <<queueVars, rotVars, cfgVars, callVars, traceVars, reqVars, poolVars, diagVars, bodyVars>>
OnlyDiag == UNCHANGED <<ctxVars, queueVars, rotVars, cfgVars, callVars, traceVars, reqVars, poolVars,
                        propVars, bodyVars>>
OnlyBody == UNCHANGED <<ctxVars, queueVars, rotVars, cfgVars, callVars, traceVars, reqVars, poolVars,
                        propVars, diagVars>>

\* ------------------------------------------------------------------ bounds
MaxSteps == 5
MaxDiag == 4
MaxEmits == 3
MaxUuid == 4
MaxRecords == 2
QueueCap == 1
MaxRollovers == 3
MaxPeriod == 2
MaxWrites == 2
MaxConfigures == 2
MaxContexts == 1
MaxCfgLogs == 2
MaxLines == 4
MaxCap == 3
MaxDepth == 2
MaxRequests == 2
MaxViewSteps == 2
MaxTasks == 2

\* ============================================================ context store

Threads == {"main", "t1", "t2"}
Children == Threads \ {"main"}

\* The keys LogContext binds (src/core/context.py:106,255,259).
Keys == {"service", "trace", "transaction"}

\* A key that is unset, or set to Ellipsis by clear_contextvars.
Absent == <<"absent">>

\* LOGGING_CONFIG service identity (src/conf/log_conf.py:38-39 defaults).
service_name == "DEFAULT_SERVICE"
environment == "dev"

ServiceInfo(name, env) == <<"service", name, env>>
ConfigService == ServiceInfo(service_name, environment)

\* Ids: explicit ones given by the caller, generated ones from uuid4().
ExplicitIds == {<<"id", "req-1">>}
Generated(n) == <<"uuid", n>>

EmptyCtx == [k \in Keys |-> Absent]

\* structlog.contextvars.get_contextvars() of thread t.
View(t) == heap[ctxOf[t]]

\* structlog.contextvars.bind_contextvars(k = v) on bindings c.
bind_contextvars(c, k, v) == [c EXCEPT ![k] = v]

NoRec ==
  [trace |-> Absent, transaction |-> Absent, service |-> Absent,
   marker |-> FALSE, nth |-> "none"]
NoIds == [trace |-> Absent, transaction |-> Absent]

Levels == {"debug", "info", "warning", "error", "critical"}

\* The outcome of an operation that is no log call.
Done(kind, t) ==
  [kind |-> kind, thread |-> t, outcome |-> "returned", emitted |-> FALSE,
   valid |-> TRUE, diag |-> 0, dirty |-> FALSE]

\* A write of thread t into the Context object it runs in.
WriteCtx(t, c) == [heap EXCEPT ![ctxOf[t]] = c]

\* ---- propagation: LogContext.enable_propagation / disable_propagation ----

\* enable that installs on every call, on top of whatever is installed.
enable_propagation_unguarded ==
  /\ OnlyCtx
  /\ steps < MaxSteps
  /\ thread_init' = IF thread_init = "original" THEN "wrapper" ELSE "nested"
  /\ propagation_enabled' = TRUE
  /\ op' = [Done("enable_propagation", "main") EXCEPT !.dirty = TRUE]
  /\ steps' = steps + 1
  /\ UNCHANGED <<status, ctxOf, heap, expected, propagated, nextUuid, lastRec,
                 explicitIds>>

\* op.dirty records whether the call changed what is installed.
enable_propagation ==
  /\ OnlyCtx
  /\ steps < MaxSteps
  /\ IF ~propagation_enabled
       THEN /\ thread_init' = "wrapper"
            /\ propagation_enabled' = TRUE
       ELSE UNCHANGED <<thread_init, propagation_enabled>>
  /\ op' = [Done("enable_propagation", "main") EXCEPT !.dirty = ~propagation_enabled]
  /\ steps' = steps + 1
  /\ UNCHANGED <<status, ctxOf, heap, expected, propagated, nextUuid, lastRec,
                 explicitIds>>

disable_propagation ==
  /\ OnlyCtx
  /\ steps < MaxSteps
  /\ IF propagation_enabled
       THEN /\ thread_init' = "original"
            /\ propagation_enabled' = FALSE
       ELSE UNCHANGED <<thread_init, propagation_enabled>>
  /\ op' = [Done("disable_propagation", "main") EXCEPT !.dirty = propagation_enabled]
  /\ steps' = steps + 1
  /\ UNCHANGED <<status, ctxOf, heap, expected, propagated, nextUuid, lastRec,
                 explicitIds>>

\* ---- Thread.__init__ under the wrapper ----

\* How the thread's body is supplied: target by keyword, target positionally
\* (args[1]), or a subclass overriding run() with no target.
Forms == {"kw", "positional", "subclass"}

\* target = kwargs.get('target') or (args[1] if len(args) > 1 else None)
HasTarget(form) == form \in {"kw", "positional"}

\* A live reference to the creator's Context instead of a copy.
copy_context_live(p, c) == ctxOf[p]

\* ctx = contextvars.copy_context(): a new Context object (named after the
\* child that will run in it) holding the creator's bindings at this instant.
copy_context(p, c) == c

\* threading.Thread(...) called by running thread p for the new thread c.
\* The wrapper snapshots p's context and wraps the target in ctx.run; the
\* original constructor leaves the new thread with an empty context.
ThreadInit(p, c, form) ==
  /\ OnlyCtx
  /\ steps < MaxSteps
  /\ status[p] = "running"
  /\ status[c] = "unborn"
  /\ LET wraps == thread_init \in {"wrapper", "module_wrapper"} /\ HasTarget(form)
     IN /\ heap' = [heap EXCEPT ![c] = IF wraps THEN View(p) ELSE EmptyCtx]
        /\ ctxOf' = [ctxOf EXCEPT ![c] = IF wraps THEN copy_context(p, c) ELSE c]
        /\ expected' = [expected EXCEPT ![c] = IF wraps THEN View(p) ELSE EmptyCtx]
        /\ propagated' = [propagated EXCEPT ![c] = wraps]
  /\ status' = [status EXCEPT ![c] = "created"]
  /\ op' = Done("Thread", p)
  /\ steps' = steps + 1
  /\ UNCHANGED <<thread_init, propagation_enabled, nextUuid, lastRec, explicitIds>>

\* Thread.start(): the new thread begins to run its (wrapped) target.
ThreadStart(c) ==
  /\ OnlyCtx
  /\ steps < MaxSteps
  /\ status[c] = "created"
  /\ status' = [status EXCEPT ![c] = "running"]
  /\ op' = Done("start", c)
  /\ steps' = steps + 1
  /\ UNCHANGED <<thread_init, propagation_enabled, ctxOf, heap, expected,
                 propagated, nextUuid, lastRec, explicitIds>>

\* ---- binds ----

set_trace_id(t, id) ==
  /\ OnlyCtx
  /\ steps < MaxSteps
  /\ status[t] = "running"
  /\ heap' = WriteCtx(t, bind_contextvars(View(t), "trace", id))
  /\ expected' = [expected EXCEPT ![t] = bind_contextvars(@, "trace", id)]
  /\ explicitIds' = [explicitIds EXCEPT ![t].trace = id]
  /\ lastRec' = [lastRec EXCEPT ![t] = NoRec]
  /\ op' = Done("set_trace_id", t)
  /\ steps' = steps + 1
  /\ UNCHANGED <<thread_init, propagation_enabled, status, ctxOf, propagated,
                 nextUuid>>

set_transaction_id(t, id) ==
  /\ OnlyCtx
  /\ steps < MaxSteps
  /\ status[t] = "running"
  /\ heap' = WriteCtx(t, bind_contextvars(View(t), "transaction", id))
  /\ expected' = [expected EXCEPT ![t] = bind_contextvars(@, "transaction", id)]
  /\ explicitIds' = [explicitIds EXCEPT ![t].transaction = id]
  /\ lastRec' = [lastRec EXCEPT ![t] = NoRec]
  /\ op' = Done("set_transaction_id", t)
  /\ steps' = steps + 1
  /\ UNCHANGED <<thread_init, propagation_enabled, status, ctxOf, propagated,
                 nextUuid>>

\* The names set_service_info is called with: "" stands for None / empty,
\* which falls back to the configured value (name or LOGGING_CONFIG.get(...)).
ServiceNames == {"", "svc-b"}

set_service_info(t, name) ==
  /\ OnlyCtx
  /\ steps < MaxSteps
  /\ status[t] = "running"
  /\ LET info == ServiceInfo(IF name = "" THEN service_name ELSE name, environment)
     IN /\ heap' = WriteCtx(t, bind_contextvars(View(t), "service", info))
        /\ expected' = [expected EXCEPT ![t] = bind_contextvars(@, "service", info)]
  /\ op' = Done("set_service_info", t)
  /\ steps' = steps + 1
  /\ UNCHANGED <<thread_init, propagation_enabled, status, ctxOf, propagated,
                 nextUuid, lastRec, explicitIds>>

\* ---- clear_context ----

\* clear_contextvars() with the service block not bound again.
ClearedCtx_norebind == EmptyCtx

\* clear_contextvars(), then bind_contextvars(service = service_info).
ClearedCtx == bind_contextvars(EmptyCtx, "service", ConfigService)

clear_context(t) ==
  /\ OnlyCtx
  /\ steps < MaxSteps
  /\ status[t] = "running"
  /\ heap' = WriteCtx(t, ClearedCtx)
  /\ expected' = [expected EXCEPT ![t] = ClearedCtx]
  /\ explicitIds' = [explicitIds EXCEPT ![t] = NoIds]
  /\ lastRec' = [lastRec EXCEPT ![t] = NoRec]
  /\ op' = [Done("clear_context", t) EXCEPT !.dirty = View(t) # ClearedCtx]
  /\ steps' = steps + 1
  /\ UNCHANGED <<thread_init, propagation_enabled, status, ctxOf, propagated,
                 nextUuid>>


\* ---- the facade log call: debug / info / warning / error / critical ----

\* The error argument of the call: None, an exception, a traceback string, a
\* mapping, an ErrorModel, or an object whose __str__ raises.
ErrArgs == {"none", "exc", "str", "dict", "model", "badstr"}

\* The extra keyword fields (**kwargs) of the call: none, a field unknown to
\* LogModel, or a field named like _log's own parameter `level`.
ExtraKw == {"none", "unknown", "level"}

\* The db argument: None, a mapping with a string statement_type, or a mapping
\* whose statement_type is None.
DbArgs == {"none", "ok", "badtype"}

\* _format_error(error): the branches that call str(error) raise on "badstr".
FormatErrorRaises(errArg) == errArg = "badstr"

\* error() and critical() format the error argument first; the other three
\* facade methods pass it on as it is.
FormatsError(level) == level \in {"error", "critical"}

\* "error" in log_data: the facade keeps the argument when it is not None.
HasError(errArg) == errArg # "none"

\* self._log(level, message, **log_kwargs), called outside any try: a keyword
\* field named `level` collides with the positional parameter (TypeError).
LogCallRaises(extraKw) == extraKw = "level"

\* The facade method raises to its caller.
FacadeRaises(level, errArg, extraKw) ==
  \/ FormatsError(level) /\ FormatErrorRaises(errArg)
  \/ LogCallRaises(extraKw)

\* ---- category and event inference ----

Categories ==
  {"http", "business", "database", "validation", "error", "performance", "audit"}

\* statement_type values of a db argument.
StatementTypes == {"SELECT", "Insert"}

\* str.lower()
Lower(st) ==
  CASE st = "SELECT" -> "select"
    [] st = "Insert" -> "insert"
    [] OTHER -> st

\* The db argument: None; a mapping whose statement_type is a string, is
\* missing ("absent") or is None; a DatabaseModel whose statement_type is a
\* string or None.
DbValues ==
  {<<"none", "absent">>}
    \cup ({"dict"} \X (StatementTypes \cup {"absent", "None"}))
    \cup ({"model"} \X (StatementTypes \cup {"None"}))

\* The custom argument: None, a mapping with n keys out of
\* SQLALCHEMY_KEYWORDS, or something that is no mapping.
CustomValues == {<<"none", 0>>, <<"other", 0>>} \cup ({"dict"} \X {0, 1, 2, 3})

\* _is_sqlalchemy_query(log_data)
is_sqlalchemy_query(d) == d.custom[1] = "dict" /\ d.custom[2] >= 2

\* _infer_category with the database-field rule tried before the error-field
\* rule.
InferCategory_dbfirst(d, level) ==
  IF d.db[1] # "none" THEN "database"
  ELSE IF d.error THEN "error"
  ELSE IF d.req \/ d.resp THEN "http"
  ELSE IF is_sqlalchemy_query(d) THEN "database"
  ELSE IF level \in {"error", "critical"} THEN "error"
  ELSE IF level = "warning" THEN "validation"
  ELSE "business"

\* _infer_category(log_data, level)
InferCategory(d, level) ==
  IF d.error THEN "error"
  ELSE IF d.db[1] # "none" THEN "database"
  ELSE IF d.req \/ d.resp THEN "http"
  ELSE IF is_sqlalchemy_query(d) THEN "database"
  ELSE IF level \in {"error", "critical"} THEN "error"
  ELSE IF level = "warning" THEN "validation"
  ELSE "business"

\* _generate_default_event(log_data, level): the event, or an exception
\* (statement_type.lower() on None).
generate_default_event(d, level) ==
  LET ev(a, b) == [raises |-> FALSE, event |-> <<a, b>>]
  IN CASE d.category = "error" -> ev("error", level)
       [] d.category = "database" ->
            IF d.db[1] = "dict"
              THEN IF d.db[2] = "None"
                     THEN [raises |-> TRUE, event |-> <<"none", "none">>]
                     ELSE ev("database",
                             Lower(IF d.db[2] = "absent" THEN "query" ELSE d.db[2]))
              ELSE ev("database", "query")
       [] d.category = "http" ->
            IF d.req /\ ~d.resp THEN ev("http", "request")
            ELSE IF d.resp /\ ~d.req THEN ev("http", "response")
            ELSE ev("http", "transaction")
       [] d.category = "audit" -> ev("audit", "action")
       [] d.category = "performance" -> ev("performance", "metric")
       [] d.category = "validation" -> ev("validation", "check")
       [] OTHER -> ev("business", level)

\* log_data of a call that gives error and db only.
LogData(errArg, db) ==
  [category |-> "none", event |-> <<"none", "none">>, error |-> HasError(errArg),
   db |-> CASE db = "none" -> <<"none", "absent">>
            [] db = "ok" -> <<"dict", "SELECT">>
            [] OTHER -> <<"dict", "None">>,
   req |-> FALSE, resp |-> FALSE, custom |-> <<"none", 0>>]

\* _infer_category(log_data, level), for calls without req / resp / custom.
infer_category(level, errArg, db) == InferCategory(LogData(errArg, db), level)

\* _generate_default_event raises inside _log's try: statement_type.lower()
\* on a db mapping whose statement_type is None.
DefaultEventRaises(level, errArg, db) ==
  generate_default_event(
    [LogData(errArg, db) EXCEPT !.category = infer_category(level, errArg, db)],
    level).raises

\* The number of ids the log call has to generate.
UuidsNeeded(c) ==
  (IF c["trace"] = Absent THEN 1 ELSE 0) + (IF c["transaction"] = Absent THEN 1 ELSE 0)

\* _ensure_trace_and_transaction binding new ids whether or not ids are bound.
ensure_trace_and_transaction_always(c, n) ==
  [c EXCEPT !["trace"] = Generated(n + 1), !["transaction"] = Generated(n + 2)]

\* _ensure_trace_and_transaction on bindings c, n uuids drawn so far: both
\* tests read the ctx fetched on entry.
ensure_trace_and_transaction(c, n) ==
  LET c1 == IF c["trace"] = Absent
              THEN bind_contextvars(c, "trace", Generated(n + 1)) ELSE c
      n1 == IF c["trace"] = Absent THEN n + 1 ELSE n
  IN IF c["transaction"] = Absent
       THEN bind_contextvars(c1, "transaction", Generated(n1 + 1)) ELSE c1

\* LogModel(**event_dict) accepts the record: message is a string, and the
\* error field, when present, is a mapping or an ErrorModel. extra="allow"
\* accepts unknown fields.
LogModelValid(level, errArg, msgOk) ==
  /\ msgOk
  /\ \/ ~HasError(errArg)
     \/ FormatsError(level)
     \/ errArg \in {"dict", "model"}

\* validate_log_structure with no `except ValidationError`: the error of an
\* invalid record propagates (into _log's except), nothing is reported.
validate_log_structure_raising(valid) ==
  [raises |-> ~valid, marker |-> FALSE, diag |-> 0]

\* validate_log_structure: LogModel(**event_dict); on ValidationError one call
\* of error_logger.error(...) and event_dict["_validation_error"] = str(e);
\* the event_dict is returned in both cases.
validate_log_structure(valid) ==
  [raises |-> FALSE, marker |-> ~valid, diag |-> IF valid THEN 0 ELSE 1]

\* The record handed to the stdlib logger: merge_contextvars, then the validator.
Record(c, marker, nth) ==
  [trace |-> c["trace"], transaction |-> c["transaction"],
   service |-> c["service"], marker |-> marker, nth |-> nth]

\* ghost: whether the record is the first or a later one ("first", "later")
\* emitted on the thread since its last clear_context / set_*_id.
Nth(t) == IF lastRec[t] = NoRec THEN "first" ELSE "later"

\* How far a facade call with these arguments gets:
\*   "raised"    the facade method raises to its caller,
\*   "swallowed" an exception inside _log's try block before any id is
\*               bound: a print to stderr, nothing emitted,
\*   "valid" / "invalid"  the record reaches the processor chain and passes /
\*               fails LogModel validation.
LogPath(level, errArg, extraKw, msgOk, db) ==
  IF FacadeRaises(level, errArg, extraKw) THEN "raised"
  ELSE IF DefaultEventRaises(level, errArg, db) THEN "swallowed"
  ELSE IF LogModelValid(level, errArg, msgOk) THEN "valid"
  ELSE "invalid"

LogPaths == {"raised", "swallowed", "valid", "invalid"}

\* The paths each facade method can take, over all arguments.
FeasiblePaths ==
  {lp \in Levels \X LogPaths :
     \E errArg \in ErrArgs, extraKw \in ExtraKw, msgOk \in BOOLEAN, db \in DbArgs :
        LogPath(lp[1], errArg, extraKw, msgOk, db) = lp[2]}

\* One facade call (debug / info / warning / error / critical) on thread t,
\* for some arguments that take the call along `path`.
Log(t, level, path) ==
  /\ OnlyCtx
  /\ steps < MaxSteps
  /\ status[t] = "running"
  /\ <<level, path>> \in FeasiblePaths
  /\ steps' = steps + 1
  /\ UNCHANGED <<thread_init, propagation_enabled, status, ctxOf, propagated,
                 explicitIds>>
  /\ IF path = "raised"
       THEN /\ op' = [Done(level, t) EXCEPT !.outcome = "raised"]
            /\ UNCHANGED <<heap, expected, nextUuid, lastRec>>
       ELSE IF path = "swallowed"
       THEN /\ op' = Done(level, t)
            /\ UNCHANGED <<heap, expected, nextUuid, lastRec>>
       ELSE
         LET bound == ensure_trace_and_transaction(View(t), nextUuid)
             v == validate_log_structure(path = "valid")
         IN /\ nextUuid + UuidsNeeded(View(t)) <= MaxUuid
            /\ heap' = WriteCtx(t, bound)
            /\ expected' = [expected EXCEPT
                              ![t] = ensure_trace_and_transaction(@, nextUuid)]
            /\ nextUuid' = nextUuid + UuidsNeeded(View(t))
            /\ IF v.raises
                 THEN \* caught by _log's except: nothing emitted
                      /\ lastRec' = lastRec
                      /\ op' = [Done(level, t) EXCEPT !.valid = (path = "valid")]
                 ELSE /\ lastRec' = [lastRec EXCEPT ![t] = Record(bound, v.marker, Nth(t))]
                      /\ op' = [Done(level, t) EXCEPT
                                  !.emitted = TRUE, !.valid = (path = "valid"),
                                  !.diag = v.diag]

\* ---- the context-store specification ----

InitCtx ==
  /\ thread_init = "original"
  /\ propagation_enabled = FALSE
  /\ status = [t \in Threads |-> IF t = "main" THEN "running" ELSE "unborn"]
  /\ ctxOf = [t \in Threads |-> t]
  \* LogContext.__init__ (the module-level `logger`) binds the service block
  \* in the importing thread.
  /\ heap = [t \in Threads |->
               IF t = "main" THEN bind_contextvars(EmptyCtx, "service", ConfigService)
               ELSE EmptyCtx]
  /\ expected = heap
  /\ propagated = [t \in Threads |-> FALSE]
  /\ nextUuid = 0
  /\ op = Done("init", "main")
  /\ lastRec = [t \in Threads |-> NoRec]
  /\ explicitIds = [t \in Threads |-> NoIds]
  /\ steps = 0

NextCtx ==
  \/ enable_propagation
  \/ disable_propagation
  \/ \E p \in Threads, c \in Children, form \in Forms : ThreadInit(p, c, form)
  \/ \E c \in Children : ThreadStart(c)
  \/ \E t \in Threads, id \in ExplicitIds : set_trace_id(t, id)
  \/ \E t \in Threads, id \in ExplicitIds : set_transaction_id(t, id)
  \/ \E t \in Threads, name \in ServiceNames : set_service_info(t, name)
  \/ \E t \in Threads : clear_context(t)
  \/ \E t \in Threads, level \in Levels, path \in LogPaths : Log(t, level, path)


\* =========================================================== queued delivery
\* The state after configure_logger(use_queue_handler=True): the handlers of
\* logger 'my.custom' are replaced by one QueueHandler, and a QueueListener
\* thread forwards to the original handlers (_setup_queue_handler).

Producers == {"p1", "p2"}

\* The original handlers of 'my.custom' and their levels (handler level
\* default DEBUG, src/conf/log_conf.py:71; an error file takes ERROR).
Sinks == {"file", "error_file"}
SinkLevel(s) == IF s = "file" THEN "debug" ELSE "error"

LevelOrder == <<"debug", "info", "warning", "error", "critical">>
LevelNo(l) == CHOOSE i \in 1..Len(LevelOrder) : LevelOrder[i] = l

RecordLevels == {"info", "error"}

\* QueueListener._sentinel
Sentinel == <<"sentinel", 0, "none">>

\* The n-th record of producer p.
Rec(p, n, lvl) == <<p, n, lvl>>
SubmittedBy(p) == {r \in submitted : r[1] = p}

\* Queue(maxsize=queue_size): a maxsize <= 0 is unbounded.
Full == queue_size > 0 /\ Len(log_queue) >= queue_size

\* How often record r occurs in sequence q.
Count(r, q) == Cardinality({i \in 1..Len(q) : q[i] = r})

\* A producer thread's log call reaches QueueHandler.emit: enqueue() is
\* queue.put_nowait(record); queue.Full is caught by emit and handed to
\* handleError, and the call returns. Non-daemon producers have ended before
\* the exit hook runs.
Produce(p, lvl) ==
  /\ OnlyQueue
  /\ hookPc = "idle"
  /\ Cardinality(SubmittedBy(p)) < MaxRecords
  /\ LET r == Rec(p, Cardinality(SubmittedBy(p)) + 1, lvl)
     IN /\ submitted' = submitted \cup {r}
        /\ IF Full
             THEN /\ discarded' = discarded \cup {r}
                  /\ UNCHANGED log_queue
             ELSE /\ log_queue' = Append(log_queue, r)
                  /\ UNCHANGED discarded
  /\ UNCHANGED <<queue_size, sinkRecv, workerPc, workerRec, queue_listener,
                 hookPc, atHook, sinkStalled>>

\* QueueListener._monitor: record = self.dequeue(True); the sentinel ends
\* the thread.
WorkerDequeue ==
  /\ OnlyQueue
  /\ workerPc = "waiting"
  /\ log_queue # <<>>
  /\ log_queue' = Tail(log_queue)
  /\ IF Head(log_queue) = Sentinel
       THEN /\ workerPc' = "stopped"
            /\ UNCHANGED workerRec
       ELSE /\ workerPc' = "handling"
            /\ workerRec' = Head(log_queue)
  /\ UNCHANGED <<queue_size, submitted, discarded, sinkRecv, queue_listener,
                 hookPc, atHook, sinkStalled>>

\* QueueListener.handle with respect_handler_level=False.
Forwards_any_level(r, s) == TRUE

\* QueueListener.handle with respect_handler_level=True:
\* process = record.levelno >= handler.level.
Forwards(r, s) == LevelNo(r[3]) >= LevelNo(SinkLevel(s))

WorkerHandle ==
  /\ OnlyQueue
  /\ workerPc = "handling"
  /\ ~sinkStalled
  /\ sinkRecv' = [s \in Sinks |->
                    IF Forwards(workerRec, s) THEN Append(sinkRecv[s], workerRec)
                    ELSE sinkRecv[s]]
  /\ workerPc' = "waiting"
  /\ workerRec' = Sentinel
  /\ UNCHANGED <<queue_size, log_queue, submitted, discarded, queue_listener,
                 hookPc, atHook, sinkStalled>>

\* A sink stops returning from handle() (a blocked disk, a dead mount).
Stall ==
  /\ OnlyQueue
  /\ ~sinkStalled
  /\ sinkStalled' = TRUE
  /\ UNCHANGED <<queue_size, log_queue, submitted, discarded, sinkRecv, workerPc,
                 workerRec, queue_listener, hookPc, atHook>>

\* The records enqueued and not yet forwarded.
Pending ==
  {log_queue[i] : i \in 1..Len(log_queue)} \cup
  (IF workerPc = "handling" THEN {workerRec} ELSE {})

\* atexit: _stop_queue_listener -> QueueListener.stop(): enqueue_sentinel()
\* is queue.put_nowait(sentinel); on a full queue queue.Full leaves the hook
\* before join() and before `_queue_listener = None`.
HookStart ==
  /\ OnlyQueue
  /\ hookPc = "idle"
  /\ queue_listener = "listener"
  /\ atHook' = Pending
  /\ IF Full
       THEN /\ hookPc' = "raised"
            /\ UNCHANGED log_queue
       ELSE /\ hookPc' = "joining"
            /\ log_queue' = Append(log_queue, Sentinel)
  /\ UNCHANGED <<queue_size, submitted, discarded, sinkRecv, workerPc, workerRec,
                 queue_listener, sinkStalled>>

\* QueueListener.stop(): self._thread.join() (no timeout), then
\* _stop_queue_listener sets _queue_listener = None.
HookJoin ==
  /\ OnlyQueue
  /\ hookPc = "joining"
  /\ workerPc = "stopped"
  /\ hookPc' = "done"
  /\ queue_listener' = "none"
  /\ UNCHANGED <<queue_size, log_queue, submitted, discarded, sinkRecv, workerPc,
                 workerRec, atHook, sinkStalled>>

InitQueue ==
  /\ queue_size \in {-1, QueueCap}
  /\ log_queue = <<>>
  /\ submitted = {}
  /\ discarded = {}
  /\ sinkRecv = [s \in Sinks |-> <<>>]
  /\ workerPc = "waiting"
  /\ workerRec = Sentinel
  /\ queue_listener = "listener"
  /\ hookPc = "idle"
  /\ atHook = {}
  /\ sinkStalled = FALSE

NextQueue ==
  \/ \E p \in Producers, lvl \in RecordLevels : Produce(p, lvl)
  \/ WorkerDequeue
  \/ WorkerHandle
  \/ Stall
  \/ HookStart
  \/ HookJoin


\* ===================================================== rotating archival sink
\* OrganizedFileHandler (src/core/handlers.py). A file name is the sequence of
\* its dot-separated parts (each part a tuple); a file is a name with a
\* modification time.

Bases == {<< <<"app">>, <<"log">> >>}

\* The retention counts the handlers are configured with (backupCount).
Retentions == {1, 2}

\* The rotation suffix of interval k (time.strftime(self.suffix, ...)).
Stamp(k) == <<"day", k>>

File(name, mtime) == [name |-> name, mtime |-> mtime]

\* filename.startswith(self.base_filename + ".")
StartsWithBaseDot(name, base) ==
  Len(name) > Len(base) /\ SubSeq(name, 1, Len(base)) = base

\* filename.endswith(".lock")
IsLock(name) == name[Len(name)] = <<"lock">>

\* A directory is a set of files with distinct names: writing a name replaces it.
Put(dir, f) == {g \in dir : g.name # f.name} \cup {f}

\* super().doRollover(): the base handler renames the active file to
\* <base>.<stamp of the interval that rolloverAt - interval lies in> in the
\* working directory and opens a new active file. The name is taken from the
\* time alone; only a file of that name in the working directory makes the
\* base handler pick another one.
RotatedName(b) == Append(b, Stamp(intervalStart[b]))

BaseRollover(b) ==
  LET active == CHOOSE f \in logdir : f.name = b
  IN Put(Put(logdir, File(RotatedName(b), active.mtime)), File(b, clock + 1))

\* _move_rotated_files_to_archive: the files of the working directory that
\* are moved (rotated versions of this base name, no lock files).
ToMove(dir, b) ==
  {f \in dir : /\ StartsWithBaseDot(f.name, b)
               /\ f.name # b
               /\ ~IsLock(f.name)}

\* shutil.move(src_path, dst_path) of every such file: a file of the same
\* name in the archive is replaced.
MovedArchive(arch, moved) ==
  {g \in arch : \A f \in moved : g.name # f.name} \cup moved

\* The archived files of base name b (_cleanup_archive's listing).
ArchiveOf(arch, b) == {f \in arch : StartsWithBaseDot(f.name, b)}

\* _cleanup_archive: nothing when backupCount <= 0; otherwise sort by mtime,
\* oldest first, and remove from the front while more than backupCount remain.
cleanup_archive(arch, b, keep) ==
  LET mine == ArchiveOf(arch, b)
  IN IF keep <= 0 THEN arch
     ELSE {f \in arch :
             f \in mine => Cardinality({g \in mine : g.mtime > f.mtime}) < keep}

\* A record is written to the active file of b.
Write(b) ==
  /\ OnlyRot
  /\ clock < MaxWrites + MaxRollovers
  /\ logdir' = Put(logdir, File(b, clock + 1))
  /\ clock' = clock + 1
  /\ UNCHANGED <<backupCount, archive, period, intervalStart, rollovers, rotated,
                 rollResult>>

\* Time passes into the next rotation interval.
Tick ==
  /\ OnlyRot
  /\ period < MaxPeriod
  /\ period' = period + 1
  /\ UNCHANGED <<backupCount, logdir, archive, clock, intervalStart, rollovers,
                 rotated, rollResult>>

\* The calls of the archive / prune step that can fail: os.listdir of the
\* working directory, shutil.move, os.listdir of the archive directory,
\* os.path.getmtime, os.remove.
FailureKinds == {"list", "move", "archlist", "mtime", "remove"}
Failures == [FailureKinds -> BOOLEAN]
NoFailure == [k \in FailureKinds |-> FALSE]

\* Every one of them but getmtime is inside a try / except Exception.
Swallowed_nomtime(kind) == kind # "mtime"

\* The try / except Exception blocks of _move_rotated_files_to_archive and
\* _cleanup_archive: every such call is inside one.
Swallowed(kind) == TRUE

\* The files the loop of _move_rotated_files_to_archive moves: none when
\* the listing fails or when shutil.move fails.
MovedFiles(dir, b, fail) ==
  IF fail["list"] \/ fail["move"] THEN {} ELSE ToMove(dir, b)

\* The calls the step makes, given which ones fail.
CallsMade(dir, arch, b, keep, fail) ==
  LET listed == IF fail["list"] THEN {} ELSE ToMove(dir, b)
      arch1 == MovedArchive(arch, MovedFiles(dir, b, fail))
      pruning == keep > 0
      mine == IF pruning /\ ~fail["archlist"] THEN ArchiveOf(arch1, b) ELSE {}
  IN {"list"}
       \cup (IF listed # {} THEN {"move"} ELSE {})
       \cup (IF pruning THEN {"archlist"} ELSE {})
       \cup (IF mine # {} THEN {"mtime"} ELSE {})
       \cup (IF ~fail["mtime"] /\ Cardinality(mine) > keep THEN {"remove"} ELSE {})

\* _cleanup_archive with failing calls: a failed listing or getmtime ends
\* the step, a failed os.remove leaves the file.
cleanup_archive_io(arch, b, keep, fail) ==
  IF fail["archlist"] \/ fail["mtime"] \/ fail["remove"] THEN arch
  ELSE cleanup_archive(arch, b, keep)

\* ghost: rollovers performed so far, all sinks together.
RECURSIVE SumOver(_, _)
SumOver(f, dom) ==
  IF dom = {} THEN 0
  ELSE LET x == CHOOSE y \in dom : TRUE IN f[x] + SumOver(f, dom \ {x})

\* OrganizedFileHandler.doRollover with the calls of `fail` failing when
\* made: super().doRollover(), then _move_rotated_files_to_archive and
\* _cleanup_archive. It is called from emit, which has opened the active file.
doRolloverIO(b, fail) ==
  /\ OnlyRot
  /\ SumOver(rollovers, DOMAIN rollovers) < MaxRollovers
  /\ \E f \in logdir : f.name = b
  /\ LET rolled == BaseRollover(b)
         moved == MovedFiles(rolled, b, fail)
     IN /\ logdir' = rolled \ moved
        /\ archive' = cleanup_archive_io(MovedArchive(archive, moved), b,
                                         backupCount[b], fail)
        /\ rotated' = [rotated EXCEPT
                         ![b] = Append(@, (CHOOSE f \in logdir : f.name = b).mtime)]
        /\ LET failed == {k \in CallsMade(rolled, archive, b, backupCount[b], fail) :
                             fail[k]}
           IN rollResult' =
                [ended |-> IF \E k \in failed : ~Swallowed(k)
                             THEN "raised" ELSE "returned",
                 failed |-> failed]
  /\ clock' = clock + 1
  /\ intervalStart' = [intervalStart EXCEPT ![b] = period]
  /\ rollovers' = [rollovers EXCEPT ![b] = @ + 1]
  /\ UNCHANGED <<backupCount, period>>

\* OrganizedFileHandler.doRollover, triggered by size (any time) or by time.
doRollover(b) == doRolloverIO(b, NoFailure)

\* Several sinks in the same working and archive directories: app.log,
\* app.log.audit (a name that begins with the first one and a dot), err.log.
ArchBases ==
  {<< <<"app">>, <<"log">> >>, << <<"app">>, <<"log">>, <<"audit">> >>,
   << <<"err">>, <<"log">> >>}

\* The sink a file belongs to: the active file of a base name, or a rotated
\* file, whose name is a base name and the rotation suffix.
OwnerOf(name) == IF name \in ArchBases THEN name ELSE SubSeq(name, 1, Len(name) - 1)

InitArch ==
  /\ \E keep \in Retentions : backupCount = [b \in ArchBases |-> keep]
  /\ logdir = {File(b, 0) : b \in ArchBases}
  /\ archive = {}
  /\ clock = 0
  /\ period = 0
  /\ intervalStart = [b \in ArchBases |-> 0]
  /\ rollovers = [b \in ArchBases |-> 0]
  /\ rotated = [b \in ArchBases |-> <<>>]
  /\ rollResult = [ended |-> "none", failed |-> {}]

\* A rollover of one of the sinks, with any of its file operations failing.
MaxArchRollovers == 2

ArchRollover(b, fail) ==
  /\ SumOver(rollovers, ArchBases) < MaxArchRollovers
  /\ doRolloverIO(b, fail)

NextArch ==
  \/ Tick
  \/ \E b \in ArchBases, fail \in Failures : ArchRollover(b, fail)

InitRot ==
  /\ backupCount \in [Bases -> Retentions]
  /\ logdir = {File(b, 0) : b \in Bases}
  /\ archive = {}
  /\ clock = 0
  /\ period = 0
  /\ intervalStart = [b \in Bases |-> 0]
  /\ rollovers = [b \in Bases |-> 0]
  /\ rotated = [b \in Bases |-> <<>>]
  /\ rollResult = [ended |-> "none", failed |-> {}]

NextRot ==
  \/ \E b \in Bases : Write(b)
  \/ Tick
  \/ \E b \in Bases : doRollover(b)


\* ============================================================ configuration
\* configure_logger and _setup_queue_handler (src/core/logger.py) and the
\* handlers a LogContext adds to its logger (src/core/context.py). Records of
\* this part are of level ERROR, which every handler accepts.

Loggers == {"my.custom", "api"}

\* LOGGING_CONFIG['loggers']: the loggers dictConfig gives their handlers.
ConfiguredLoggers == {"my.custom"}

\* The threads that log.
Callers == {"c1", "c2"}

\* configure_logger(use_queue_handler: Optional[bool] = None)
UseArgs == {"None", "True", "False"}

\* use_queue_handler in logging.yaml: not set, null, true or false.
YamlValues == {"absent", "null", "True", "False"}

\* log_file argument of LogContext: not given, or a path.
LogFiles == {"none", "x"}

\* A handler object: the file it writes ("queue" for a QueueHandler) and its
\* identity: what created it, for which logger, after how many dictConfig
\* calls (a logger loses its handlers in dictConfig only).
Handler(file, id) == [file |-> file, id |-> id]
NewId(origin, name, g) == <<origin, name, g>>
IsQueueHandler(h) == h.file = "queue"

\* _build_logging_config: yaml_config.get('use_queue_handler', False)
ConfigUseQueue ==
  IF yamlUse = "absent" THEN "False"
  ELSE IF yamlUse = "null" THEN "None"
  ELSE yamlUse

\* _is_asyncio_environment: one of asyncio, fastapi, aiohttp, tornado, sanic
\* is in sys.modules.
is_asyncio_environment == asyncLoaded

\* configure_logger: the mode selection.
use_queue_handler(arg) ==
  IF arg # "None" THEN arg = "True"
  ELSE IF ConfigUseQueue # "None" THEN ConfigUseQueue = "True"
  ELSE is_asyncio_environment

\* logging.config.dictConfig(config): every configured logger loses its
\* handlers and gets new handler objects for its configured files.
DictConfigHandlers(g) ==
  <<Handler("app", NewId("dictConfig", "my.custom", g)),
    Handler("error", NewId("dictConfig", "my.custom", g))>>

HasFile(hs, file) == \E i \in 1..Len(hs) : hs[i].file = file

\* LogContext._setup_file_handler: nothing when the logger already has a
\* handler of that file; otherwise a file handler, and an error.log handler
\* unless the logger has one.
setup_file_handler(hs, name, file) ==
  LET id == NewId("LogContext", name, cfgOps["configure"])
  IN IF HasFile(hs, file) THEN hs
     ELSE LET hs1 == Append(hs, Handler(file, id))
          IN IF HasFile(hs1, "error") THEN hs1
             ELSE Append(hs1, Handler("error", id))

\* LogContext._is_logger_configured (no name here is a child of another).
is_logger_configured(name) == name \in ConfiguredLoggers

\* The file LogContext.__init__ gives a logger: log_file, or <name>.log.
AutoLogFile(name, lf) == IF lf # "none" THEN lf ELSE name

Bump(kind) == [cfgOps EXCEPT ![kind] = @ + 1]

Locked(h) == \E w \in writing : w.h = h
WritingBy(who) == {w \in writing : w.by = who}

\* _setup_queue_handler after the old listener, if any, has been stopped:
\* the handlers of 'my.custom' go to a new QueueListener, the logger keeps
\* one QueueHandler, the listener thread starts.
SetupQueue(original, g) ==
  IF original = <<>>
    THEN /\ handlersOf' = [handlersOf EXCEPT !["my.custom"] = original]
         /\ UNCHANGED <<listenerHandlers, cfgQueueId, cfgQueue, workerAlive,
                        cfgListener>>
    ELSE /\ handlersOf' = [handlersOf EXCEPT
                             !["my.custom"] = <<Handler("queue", NewId("queue", "my.custom", g))>>]
         /\ listenerHandlers' = original
         /\ cfgQueueId' = NewId("queue", "my.custom", g)
         /\ cfgQueue' = <<>>
         /\ workerAlive' = TRUE
         /\ cfgListener' = TRUE

\* configure_logger(arg) up to the point where it waits in
\* _queue_listener.stop(): dictConfig, the mode selection, and, with queued
\* mode selected, either the whole of _setup_queue_handler (no listener yet)
\* or the sentinel for the old listener.
ConfigureBegin(arg) ==
  /\ OnlyCfg
  /\ cfgPc = "idle"
  /\ cfgOps["configure"] < MaxConfigures
  /\ cfgOps' = Bump("configure")
  /\ lastCfg' = [arg |-> arg, queued |-> use_queue_handler(arg)]
  /\ IF ~use_queue_handler(arg)
       THEN /\ handlersOf' = [handlersOf EXCEPT
                                !["my.custom"] = DictConfigHandlers(cfgOps'["configure"])]
            /\ mode' = "sync"
            /\ UNCHANGED <<cfgListener, listenerHandlers, cfgQueueId, cfgQueue,
                           workerAlive, cfgPc>>
       ELSE IF cfgListener
         THEN /\ handlersOf' = [handlersOf EXCEPT
                                  !["my.custom"] = DictConfigHandlers(cfgOps'["configure"])]
              /\ cfgQueue' = Append(cfgQueue, "sentinel")
              /\ cfgPc' = "stopping"
              /\ mode' = "configuring"
              /\ UNCHANGED <<cfgListener, listenerHandlers, cfgQueueId, workerAlive>>
         ELSE /\ SetupQueue(DictConfigHandlers(cfgOps'["configure"]), cfgOps'["configure"])
              /\ mode' = "queued"
              /\ UNCHANGED cfgPc
  /\ UNCHANGED <<yamlUse, asyncLoaded, workerAt, callerAt, callerQueued, writing>>

\* configure_logger once the old listener thread has ended (stop() joined
\* it): the rest of _setup_queue_handler, on the handlers 'my.custom' has now.
ConfigureEnd ==
  /\ OnlyCfg
  /\ cfgPc = "stopping"
  /\ ~workerAlive
  /\ SetupQueue(handlersOf["my.custom"], cfgOps["configure"])
  /\ cfgPc' = "idle"
  /\ mode' = IF handlersOf["my.custom"] = <<>> THEN "sync" ELSE "queued"
  /\ UNCHANGED <<yamlUse, asyncLoaded, workerAt, callerAt, callerQueued, writing,
                 lastCfg, cfgOps>>

\* LogContext(name, log_file=lf): the logger gets its own file and error.log
\* handlers when a file is given or the name is not a configured one. (The
\* service block it binds is the one the thread's context holds already.)
NewLogContext(name, lf) ==
  /\ OnlyCfg
  /\ cfgOps["context"] < MaxContexts
  /\ cfgOps' = Bump("context")
  /\ IF lf # "none" \/ ~is_logger_configured(name)
       THEN handlersOf' = [handlersOf EXCEPT
                             ![name] = setup_file_handler(@, name, AutoLogFile(name, lf))]
       ELSE UNCHANGED handlersOf
  /\ UNCHANGED <<yamlUse, asyncLoaded, cfgListener, listenerHandlers, cfgQueueId,
                 cfgQueue, workerAlive, workerAt, callerAt, callerQueued, writing,
                 cfgPc, mode, lastCfg>>

\* A caller's log call reaches Logger.callHandlers of its logger.
CallerLog(t, lg) ==
  /\ OnlyCfg
  /\ cfgOps["log"] < MaxCfgLogs
  /\ callerAt[t] = <<>> /\ WritingBy(t) = {}
  /\ handlersOf[lg] # <<>>
  /\ cfgOps' = Bump("log")
  /\ callerAt' = [callerAt EXCEPT ![t] = handlersOf[lg]]
  /\ callerQueued' = [callerQueued EXCEPT ![t] = (mode = "queued")]
  /\ UNCHANGED <<yamlUse, asyncLoaded, handlersOf, cfgListener,
                 listenerHandlers, cfgQueueId, cfgQueue, workerAlive, workerAt,
                 writing, cfgPc, mode, lastCfg>>

\* The caller calls its next handler: a QueueHandler enqueues and returns
\* (into a Queue no listener reads when the handler is a replaced one); a
\* file handler takes its lock and begins to write.
CallerStep(t) ==
  /\ OnlyCfg
  /\ callerAt[t] # <<>> /\ WritingBy(t) = {}
  /\ LET h == Head(callerAt[t])
     IN IF IsQueueHandler(h)
          THEN /\ cfgQueue' = IF h.id = cfgQueueId THEN Append(cfgQueue, "record")
                              ELSE cfgQueue
               /\ callerAt' = [callerAt EXCEPT ![t] = Tail(@)]
               /\ UNCHANGED writing
          ELSE /\ ~Locked(h)
               /\ writing' = writing \cup
                    {[h |-> h, by |-> t, queued |-> callerQueued[t]]}
               /\ UNCHANGED <<cfgQueue, callerAt>>
  /\ UNCHANGED <<yamlUse, asyncLoaded, handlersOf, cfgListener,
                 listenerHandlers, cfgQueueId, workerAlive, workerAt,
                 callerQueued, cfgPc, mode, lastCfg, cfgOps>>

\* The caller's write ends and the handler's lock is released.
CallerEnd(t) ==
  /\ OnlyCfg
  /\ WritingBy(t) # {}
  /\ writing' = writing \ WritingBy(t)
  /\ callerAt' = [callerAt EXCEPT ![t] = Tail(@)]
  /\ UNCHANGED <<yamlUse, asyncLoaded, handlersOf, cfgListener,
                 listenerHandlers, cfgQueueId, cfgQueue, workerAlive, workerAt,
                 callerQueued, cfgPc, mode, lastCfg, cfgOps>>

\* QueueListener._monitor: the next record, or the sentinel that ends it.
WorkerTake ==
  /\ OnlyCfg
  /\ workerAlive /\ workerAt = <<>> /\ WritingBy("worker") = {}
  /\ cfgQueue # <<>>
  /\ cfgQueue' = Tail(cfgQueue)
  /\ IF Head(cfgQueue) = "sentinel"
       THEN workerAlive' = FALSE /\ UNCHANGED workerAt
       ELSE workerAt' = listenerHandlers /\ UNCHANGED workerAlive
  /\ UNCHANGED <<yamlUse, asyncLoaded, handlersOf, cfgListener,
                 listenerHandlers, cfgQueueId, callerAt, callerQueued, writing,
                 cfgPc, mode, lastCfg, cfgOps>>

\* QueueListener.handle: the worker calls its next handler.
WorkerStep ==
  /\ OnlyCfg
  /\ workerAt # <<>> /\ WritingBy("worker") = {}
  /\ ~Locked(Head(workerAt))
  /\ writing' = writing \cup
       {[h |-> Head(workerAt), by |-> "worker", queued |-> TRUE]}
  /\ UNCHANGED <<yamlUse, asyncLoaded, handlersOf, cfgListener,
                 listenerHandlers, cfgQueueId, cfgQueue, workerAlive, workerAt,
                 callerAt, callerQueued, cfgPc, mode, lastCfg, cfgOps>>

WorkerEnd ==
  /\ OnlyCfg
  /\ WritingBy("worker") # {}
  /\ writing' = writing \ WritingBy("worker")
  /\ workerAt' = Tail(workerAt)
  /\ UNCHANGED <<yamlUse, asyncLoaded, handlersOf, cfgListener,
                 listenerHandlers, cfgQueueId, cfgQueue, workerAlive, callerAt,
                 callerQueued, cfgPc, mode, lastCfg, cfgOps>>

\* The process after `import loggers`: logger = LogContext() on the configured
\* name 'my.custom' adds no handler; configure_logger has not run.
InitCfg ==
  /\ yamlUse \in YamlValues
  /\ asyncLoaded \in BOOLEAN
  /\ handlersOf = [lg \in Loggers |-> <<>>]
  /\ cfgListener = FALSE
  /\ listenerHandlers = <<>>
  /\ cfgQueueId = NewId("queue", "my.custom", 0)
  /\ cfgQueue = <<>>
  /\ workerAlive = FALSE
  /\ workerAt = <<>>
  /\ callerAt = [t \in Callers |-> <<>>]
  /\ callerQueued = [t \in Callers |-> FALSE]
  /\ writing = {}
  /\ cfgPc = "idle"
  /\ mode = "none"
  /\ lastCfg = [arg |-> "none", queued |-> FALSE]
  /\ cfgOps = [k \in {"configure", "context", "log"} |-> 0]

NextCfg ==
  \/ \E arg \in UseArgs : ConfigureBegin(arg)
  \/ ConfigureEnd
  \/ \E name \in Loggers, lf \in LogFiles : NewLogContext(name, lf)
  \/ \E t \in Callers, lg \in Loggers : CallerLog(t, lg)
  \/ \E t \in Callers : CallerStep(t)
  \/ \E t \in Callers : CallerEnd(t)
  \/ WorkerTake
  \/ WorkerStep
  \/ WorkerEnd


\* ======================================================= one facade call
\* _log's treatment of category and event, over the arguments of one call
\* (src/core/context.py, _log).

\* The arguments: level, category and event (given or not), whether error,
\* req and resp are given, the db and custom arguments.
CallInputs ==
  [level : Levels, category : Categories \cup {"none"},
   event : {<<"none", "none">>, <<"given", "event">>},
   error : BOOLEAN, db : DbValues, req : BOOLEAN, resp : BOOLEAN,
   custom : CustomValues]

NoResult == [category |-> "none", event |-> <<"none", "none">>, emitted |-> FALSE,
             done |-> FALSE]

\* _log(level, message, **kwargs): category, then event, then the record is
\* handed to the logger; an exception on the way is swallowed and nothing
\* is emitted.
LogCall ==
  /\ OnlyCall
  /\ ~result.done
  /\ LET cat == IF call.category # "none" THEN call.category
                ELSE InferCategory(call, call.level)
         d == [call EXCEPT !.category = cat]
         gen == IF call.event[1] # "none"
                  THEN [raises |-> FALSE, event |-> call.event]
                  ELSE generate_default_event(d, call.level)
     IN result' = [category |-> cat, event |-> gen.event,
                   emitted |-> ~gen.raises, done |-> TRUE]
  /\ UNCHANGED call

InitCall == call \in CallInputs /\ result = NoResult

\* The part at rest: one fixed call, not yet made.
QuietCall ==
  /\ call = [level |-> "info", category |-> "none", event |-> <<"none", "none">>,
             error |-> FALSE, db |-> <<"none", "absent">>, req |-> FALSE,
             resp |-> FALSE, custom |-> <<"none", 0>>]
  /\ result = NoResult

NextCall == LogCall


\* ============================================================= stack parser
\* StackTraceParser (src/core/stack_parser.py). A traceback text is the
\* sequence of its lines. Of a line the model keeps what the parser looks at:
\*   frame  which File "...", line N, in fn text FRAME_PATTERN finds in it
\*          (0: the pattern does not occur in the line),
\*   head   the dotted word before a colon at the start of the line, as
\*          extract_exception_info's pattern takes it ("none": no match).

TextLine(kind, frame, head) == [kind |-> kind, frame |-> frame, head |-> head]

\* The lines of the texts given to the parser directly: the header, frame
\* lines, a frame line of a file whose name holds a double quote (the pattern
\* does not occur in it), source lines and exception lines without and with
\* frame-like text in them, whitespace-only lines.
TextAlphabet ==
  {TextLine("header", 0, "none"), TextLine("oddframe", 0, "none"),
   TextLine("blank", 0, "none")}
    \cup {TextLine("frame", i, "none") : i \in {1, 2}}
    \cup {TextLine("code", i, "none") : i \in {0, 3}}
    \cup {TextLine("exc", i, "ValueError") : i \in {0, 3}}

Texts == UNION {[1..n -> TextAlphabet] : n \in 0..MaxLines}

None == <<"None", 0>>

\* match.group(1), int(match.group(2)), match.group(3) of frame text i, and
\* the source line kept with it (<<>>: no code).
StackFrame(i, code) ==
  [file |-> <<"file", i>>, line |-> <<"line", i>>, function |-> <<"fn", i>>,
   code |-> code]

\* The code snippet of the frame in line i: the next line, when there is one,
\* it is not empty after strip() and the pattern does not occur in it.
CodeSnippet(lines, i) ==
  IF i + 1 <= Len(lines) /\ lines[i + 1].kind # "blank" /\ lines[i + 1].frame = 0
    THEN <<lines[i + 1]>>
    ELSE <<>>

RECURSIVE ParseSkippingFrom(_, _)
ParseSkippingFrom(lines, i) ==
  IF i > Len(lines) THEN <<>>
  ELSE IF lines[i].frame # 0
    THEN <<StackFrame(lines[i].frame, CodeSnippet(lines, i))>>
           \o ParseSkippingFrom(lines, i + 2)
    ELSE ParseSkippingFrom(lines, i + 1)

\* parse_traceback stepping over the line after a frame line.
parse_traceback_skipping(lines) == ParseSkippingFrom(lines, 1)

\* The while loop of parse_traceback from line i on.
RECURSIVE ParseFrom(_, _)
ParseFrom(lines, i) ==
  IF i > Len(lines) THEN <<>>
  ELSE (IF lines[i].frame # 0
          THEN <<StackFrame(lines[i].frame, CodeSnippet(lines, i))>>
          ELSE <<>>)
       \o ParseFrom(lines, i + 1)

\* StackTraceParser.parse_traceback
parse_traceback(lines) == ParseFrom(lines, 1)

\* StackTraceParser.extract_error_location
extract_error_location(lines) ==
  LET frames == parse_traceback(lines)
  IN IF frames # <<>>
       THEN [file |-> frames[Len(frames)].file, line |-> frames[Len(frames)].line,
             function |-> frames[Len(frames)].function]
       ELSE [file |-> None, line |-> None, function |-> None]

\* tb_string.strip().split('\n')[-1].strip(): the last line that is not
\* whitespace only (<<>> when there is none).
LastLine(lines) ==
  LET idx == {i \in 1..Len(lines) : lines[i].kind # "blank"}
  IN IF idx = {} THEN <<>>
     ELSE <<lines[CHOOSE i \in idx : \A j \in idx : j <= i]>>

\* StackTraceParser.extract_exception_info: (type, message) from the last
\* line; the message is what follows the colon, or the whole line with type
\* None when the pattern does not match.
extract_exception_info(lines) ==
  LET last == LastLine(lines)
  IN IF last # <<>> /\ last[1].head # "none"
       THEN [type |-> last[1].head, message |-> <<"after colon", last>>]
       ELSE [type |-> "None", message |-> <<"whole line", last>>]

\* if max_frames and len(stack_frames) > max_frames:
\*     stack_frames = stack_frames[-max_frames:]
Truncate(frames, c) ==
  IF c.set /\ c.k # 0 /\ Len(frames) > c.k
    THEN SubSeq(frames, Len(frames) - c.k + 1, Len(frames))
    ELSE frames

\* StackTraceParser.format_traceback_string (include_full_text=True)
format_traceback_string(lines, c) ==
  LET info == extract_exception_info(lines)
      loc == extract_error_location(lines)
  IN [message |-> IF info.message = <<"whole line", <<>>>>
                    THEN <<"Unknown error", <<>>>> ELSE info.message,
      error_type |-> info.type,
      stack_frames |-> Truncate(parse_traceback(lines), c),
      error_file |-> loc.file, error_line |-> loc.line,
      error_function |-> loc.function, stack_trace_text |-> lines]

\* Exception classes: a built-in, one defined in the script, one defined in
\* a module.
ExcClasses ==
  {[module |-> "builtins", name |-> "ValueError"],
   [module |-> "__main__", name |-> "AppError"],
   [module |-> "pkg.mod", name |-> "MyError"]}

\* str(exception), line by line: a line is plain text or starts like
\* "detail: ...".
Messages ==
  {<<>>, <<"plain">>, <<"colon">>, <<"plain", "plain">>, <<"plain", "colon">>}

\* Exceptions that carry a traceback of 1..MaxDepth frames.
Exceptions == [cls : ExcClasses, msg : Messages, depth : 1..MaxDepth]
NoExc == [cls |-> [module |-> "none", name |-> "none"], msg |-> <<>>, depth |-> 0]

\* The name traceback.format_exception prints for the class: the module is
\* prefixed unless it is builtins or __main__.
QualifiedName(cls) ==
  IF cls.module \in {"builtins", "__main__"} THEN cls.name
  ELSE CASE cls.name = "MyError" -> "pkg.mod.MyError"
         [] OTHER -> cls.name

RECURSIVE FrameLines(_)
FrameLines(d) ==
  IF d = 0 THEN <<>>
  ELSE FrameLines(d - 1) \o <<TextLine("frame", d, "none"), TextLine("code", 0, "none")>>

\* ''.join(traceback.format_exception(type(e), e, e.__traceback__)): header,
\* the frames outermost first, then "<name>: <first message line>" and the
\* further message lines, or "<name>" alone for an empty message.
FormatException(e) ==
  <<TextLine("header", 0, "none")>> \o FrameLines(e.depth) \o
  (IF e.msg = <<>> THEN <<TextLine("exc", 0, "none")>>
   ELSE <<TextLine("exc", 0, QualifiedName(e.cls))>> \o
        [i \in 1..(Len(e.msg) - 1) |->
           TextLine("msg", 0, IF e.msg[i + 1] = "colon" THEN "detail" ELSE "none")])

\* StackTraceParser.format_for_elk (include_full_traceback=True) of an
\* exception whose __traceback__ is set.
format_for_elk(e, c) ==
  LET lines == FormatException(e)
      info == extract_exception_info(lines)
      loc == extract_error_location(lines)
  IN [message |-> info.message,
      error_type |-> IF info.type = "None" THEN e.cls.name ELSE info.type,
      stack_frames |-> Truncate(parse_traceback(lines), c),
      error_file |-> loc.file, error_line |-> loc.line,
      error_function |-> loc.function, stack_trace_text |-> lines]

\* ErrorModel(**error_dict).model_dump(): every field of the dictionary is a
\* declared field of a type the model accepts and comes back as it went in.
ErrorModelDump(d) ==
  [message |-> d.message, error_type |-> d.error_type,
   stack_frames |-> d.stack_frames, error_file |-> d.error_file,
   error_line |-> d.error_line, error_function |-> d.error_function,
   stack_trace_text |-> d.stack_trace_text]

NoOut == [fn |-> "none"]
Caps == {[set |-> FALSE, k |-> 0]} \cup [set : {TRUE}, k : 0..MaxCap]

\* parse_traceback(tb) and extract_error_location(tb)
ParseTraceback ==
  /\ OnlyTrace
  /\ out = NoOut
  /\ out' = [fn |-> "parse_traceback", frames |-> parse_traceback(tb),
             location |-> extract_error_location(tb)]
  /\ UNCHANGED <<exc, tb, cap>>

\* format_traceback_string(tb, max_frames=cap)
FormatTracebackString ==
  /\ OnlyTrace
  /\ out = NoOut
  /\ out' = [fn |-> "format_traceback_string",
             error |-> format_traceback_string(tb, cap)]
  /\ UNCHANGED <<exc, tb, cap>>

\* ErrorModel(**format_for_elk(exc, max_frames=cap)).model_dump()
FormatForElk ==
  /\ OnlyTrace
  /\ out = NoOut
  /\ exc # NoExc
  /\ out' = [fn |-> "format_for_elk", error |-> ErrorModelDump(format_for_elk(exc, cap))]
  /\ UNCHANGED <<exc, tb, cap>>

\* Either a text, or an exception and the text format_exception gives it.
InitTrace ==
  /\ exc \in Exceptions \cup {NoExc}
  /\ tb \in IF exc = NoExc THEN Texts ELSE {FormatException(exc)}
  /\ cap \in Caps
  /\ out = NoOut

QuietTrace ==
  /\ exc = NoExc /\ tb = <<>> /\ cap = [set |-> FALSE, k |-> 0] /\ out = NoOut

NextTrace ==
  \/ ParseTraceback
  \/ FormatTracebackString
  \/ FormatForElk


\* ======================================================= Flask request hooks
\* src/utils/flask_hooks.py: one thread handles requests one after another.
\* For each request Flask calls _log_request_start (before_request), the view
\* function, _log_request_end (after_request) and, whatever happened,
\* _teardown_request_context (teardown_request). The view binds values,
\* logs and runs SQL statements, for which the listeners _sql_before_execute
\* and _sql_after_execute / _sql_handle_error are called.

Requests == 1..MaxRequests
StashKeys == {"sql_start_time", "sql_statement", "sql_parameters"}
ReqKeys == Keys \cup {"user"} \cup StashKeys
ReqEmptyCtx == [k \in ReqKeys |-> Absent]

\* The ids and statements a request brings with it.
RequestId(r) == <<"id", r>>
Statement(r) == <<"sql", r>>
UserValue(r) == <<"user", r>>

\* Statements: those of SQL_STATE_TUPLE are not recorded.
SqlStatements == {"BEGIN", "SELECT"}
NoSql == [phase |-> "none", stmt |-> "none", pre |-> ReqEmptyCtx]

\* logger.clear_context() on the thread's bindings: every key cleared, the
\* configured service block bound again.
ReqClearedCtx == [k \in ReqKeys |-> IF k \in Keys THEN ClearedCtx[k] ELSE Absent]

\* _teardown_request_context clearing only after a request without exception.
teardown_request_context_onsuccess(c, exception) ==
  IF exception THEN c ELSE ReqClearedCtx

\* _teardown_request_context(exception): logger.clear_context()
teardown_request_context(c, exception) == ReqClearedCtx

\* ghost: the bindings d holds that c does not.
NewlyBound(c, d) == {<<k, d[k]>> : k \in {j \in ReqKeys : d[j] # c[j] /\ d[j] # Absent}}

\* A facade call of a hook or of the view: ids are generated when missing,
\* the record carries the bindings.
ReqLog(c) ==
  /\ reqUuid + UuidsNeeded(c) <= 2 * MaxRequests
  /\ reqUuid' = reqUuid + UuidsNeeded(c)

\* before_request: _log_request_start
LogRequestStart ==
  /\ OnlyReq
  /\ reqSql' = NoSql
  /\ reqPc = "idle" /\ reqNo < MaxRequests
  /\ reqNo' = reqNo + 1
  /\ ReqLog(reqCtx)
  /\ reqCtx' = ensure_trace_and_transaction(reqCtx, reqUuid)
  /\ reqRecords' = {reqCtx'}
  /\ reqBound' = NewlyBound(reqCtx, reqCtx')
  /\ reqPc' = "view"
  /\ reqOutcome' = "none"
  /\ reqSteps' = 0
  /\ UNCHANGED reqPrev

\* The view calls logger.set_trace_id / set_transaction_id with an id of its
\* request.
ViewSetId(k) ==
  /\ OnlyReq
  /\ reqPc = "view" /\ reqSteps < MaxViewSteps /\ reqSql.phase # "executing"
  /\ reqSql' = NoSql
  /\ reqCtx' = bind_contextvars(reqCtx, k, RequestId(reqNo))
  /\ reqBound' = reqBound \cup NewlyBound(reqCtx, reqCtx')
  /\ reqSteps' = reqSteps + 1
  /\ UNCHANGED <<reqNo, reqPc, reqOutcome, reqPrev, reqRecords, reqUuid>>

\* The view calls logger.set_service_info(name).
ViewSetServiceInfo(name) ==
  /\ OnlyReq
  /\ reqPc = "view" /\ reqSteps < MaxViewSteps /\ reqSql.phase # "executing"
  /\ reqSql' = NoSql
  /\ reqCtx' = bind_contextvars(reqCtx, "service",
                 ServiceInfo(IF name = "" THEN service_name ELSE name, environment))
  /\ reqBound' = reqBound \cup NewlyBound(reqCtx, reqCtx')
  /\ reqSteps' = reqSteps + 1
  /\ UNCHANGED <<reqNo, reqPc, reqOutcome, reqPrev, reqRecords, reqUuid>>

\* The view binds a key of its own: structlog.contextvars.bind_contextvars.
ViewBindUser ==
  /\ OnlyReq
  /\ reqPc = "view" /\ reqSteps < MaxViewSteps /\ reqSql.phase # "executing"
  /\ reqSql' = NoSql
  /\ reqCtx' = bind_contextvars(reqCtx, "user", UserValue(reqNo))
  /\ reqBound' = reqBound \cup NewlyBound(reqCtx, reqCtx')
  /\ reqSteps' = reqSteps + 1
  /\ UNCHANGED <<reqNo, reqPc, reqOutcome, reqPrev, reqRecords, reqUuid>>

\* The view logs.
ViewLog ==
  /\ OnlyReq
  /\ reqPc = "view" /\ reqSteps < MaxViewSteps /\ reqSql.phase # "executing"
  /\ reqSql' = NoSql
  /\ ReqLog(reqCtx)
  /\ reqCtx' = ensure_trace_and_transaction(reqCtx, reqUuid)
  /\ reqRecords' = reqRecords \cup {reqCtx'}
  /\ reqBound' = reqBound \cup NewlyBound(reqCtx, reqCtx')
  /\ reqSteps' = reqSteps + 1
  /\ UNCHANGED <<reqNo, reqPc, reqOutcome, reqPrev>>

\* contextvars.bind_contextvars(sql_start_time=..., sql_statement=...,
\* sql_parameters=...) of request r's statement.
StashSql(c, r) ==
  [c EXCEPT !["sql_start_time"] = <<"time", r>>, !["sql_statement"] = Statement(r),
            !["sql_parameters"] = <<"params", r>>]

\* contextvars.unbind_contextvars("sql_start_time", "sql_statement",
\* "sql_parameters") left out when the listener did not emit its record.
unbind_sql_onsuccess(c, emitted) ==
  IF emitted THEN [k \in ReqKeys |-> IF k \in StashKeys THEN Absent ELSE c[k]] ELSE c

\* The finally block of _sql_after_execute / _sql_handle_error:
\* contextvars.unbind_contextvars("sql_start_time", "sql_statement",
\* "sql_parameters").
unbind_sql(c, emitted) ==
  [k \in ReqKeys |-> IF k \in StashKeys THEN Absent ELSE c[k]]

\* before_cursor_execute: _sql_before_execute stashes start time, statement
\* and parameters, unless the statement is one of SQL_STATE_TUPLE.
SqlBeforeExecute(stmt) ==
  /\ OnlyReq
  /\ reqPc = "view" /\ reqSteps < MaxViewSteps /\ reqSql.phase # "executing"
  /\ reqCtx' = IF stmt = "BEGIN" THEN reqCtx ELSE StashSql(reqCtx, reqNo)
  /\ reqSql' = [phase |-> "executing", stmt |-> stmt, pre |-> reqCtx]
  /\ reqBound' = reqBound \cup NewlyBound(reqCtx, reqCtx')
  /\ reqSteps' = reqSteps + 1
  /\ UNCHANGED <<reqNo, reqPc, reqOutcome, reqPrev, reqRecords, reqUuid>>

\* The listener returns before logging: _sql_after_execute for a statement
\* of SQL_STATE_TUPLE or without start time, _sql_handle_error without a
\* stashed statement.
SqlSkips(ev, stmt, c) ==
  IF ev = "after" THEN stmt = "BEGIN" \/ c["sql_start_time"] = Absent
  ELSE c["sql_statement"] = Absent

\* How the listener's try block ends: the record is emitted, the facade call
\* binds ids and the record is lost on the way, or an exception is raised
\* before the facade call; all are caught.
SqlOutcomes == {"emitted", "lost", "raised"}

\* after_cursor_execute / handle_error: _sql_after_execute and
\* _sql_handle_error log the statement, then unbind the stashed keys.
SqlAfterExecute(ev, outcome) ==
  /\ OnlyReq
  /\ reqPc = "view"
  /\ reqSql.phase = "executing"
  /\ LET logs == ~SqlSkips(ev, reqSql.stmt, reqCtx) /\ outcome # "raised"
         emits == logs /\ outcome = "emitted"
         bound == IF logs THEN ensure_trace_and_transaction(reqCtx, reqUuid)
                  ELSE reqCtx
     IN /\ logs => reqUuid + UuidsNeeded(reqCtx) <= 2 * MaxRequests
        /\ reqUuid' = IF logs THEN reqUuid + UuidsNeeded(reqCtx) ELSE reqUuid
        /\ reqRecords' = IF emits THEN reqRecords \cup {bound} ELSE reqRecords
        /\ reqCtx' = unbind_sql(bound, emits)
        /\ reqSql' = [reqSql EXCEPT !.phase = ev]
  /\ reqBound' = reqBound \cup NewlyBound(reqCtx, reqCtx')
  /\ UNCHANGED <<reqNo, reqPc, reqOutcome, reqPrev, reqSteps>>

\* The view returns a response or raises; after_request functions are called
\* for the response (also the one made of the exception), unless building
\* it failed.
ViewEnd(failed, skipAfter) ==
  /\ OnlyReq
  /\ reqSql' = NoSql
  /\ reqPc = "view"
  /\ skipAfter => failed
  /\ reqOutcome' = IF failed THEN "failed" ELSE "ok"
  /\ reqPc' = IF skipAfter THEN "teardown" ELSE "after"
  /\ UNCHANGED <<reqCtx, reqNo, reqPrev, reqRecords, reqUuid, reqBound, reqSteps>>

\* after_request: _log_request_end returns at once for OPTIONS, else logs.
LogRequestEnd(options) ==
  /\ OnlyReq
  /\ reqSql' = NoSql
  /\ reqPc = "after"
  /\ IF options
       THEN UNCHANGED <<reqCtx, reqRecords, reqUuid, reqBound>>
       ELSE /\ ReqLog(reqCtx)
            /\ reqCtx' = ensure_trace_and_transaction(reqCtx, reqUuid)
            /\ reqRecords' = reqRecords \cup {reqCtx'}
            /\ reqBound' = reqBound \cup NewlyBound(reqCtx, reqCtx')
  /\ reqPc' = "teardown"
  /\ UNCHANGED <<reqNo, reqOutcome, reqPrev, reqSteps>>

\* teardown_request: _teardown_request_context(exception)
TeardownRequest ==
  /\ OnlyReq
  /\ reqSql' = NoSql
  /\ reqPc = "teardown"
  /\ reqCtx' = teardown_request_context(reqCtx, reqOutcome = "failed")
  /\ reqPrev' = [outcome |-> reqOutcome, left |-> NewlyBound(ReqClearedCtx, reqCtx)]
  /\ reqPc' = "idle"
  /\ UNCHANGED <<reqNo, reqOutcome, reqRecords, reqUuid, reqBound, reqSteps>>

\* The handling thread is the importing thread (service block bound by
\* LogContext.__init__) or a thread started later (nothing bound).
InitReq ==
  /\ reqCtx \in {ReqEmptyCtx, ReqClearedCtx}
  /\ reqNo = 0
  /\ reqPc = "idle"
  /\ reqOutcome = "none"
  /\ reqPrev = [outcome |-> "none", left |-> {}]
  /\ reqRecords = {}
  /\ reqUuid = 0
  /\ reqBound = {}
  /\ reqSteps = 0
  /\ reqSql = NoSql

QuietReq ==
  /\ reqCtx = ReqEmptyCtx /\ reqNo = 0 /\ reqPc = "idle" /\ reqOutcome = "none"
  /\ reqPrev = [outcome |-> "none", left |-> {}]
  /\ reqRecords = {} /\ reqUuid = 0 /\ reqBound = {} /\ reqSteps = 0
  /\ reqSql = NoSql

NextReq ==
  \/ LogRequestStart
  \/ \E k \in {"trace", "transaction"} : ViewSetId(k)
  \/ \E name \in ServiceNames : ViewSetServiceInfo(name)
  \/ ViewBindUser
  \/ ViewLog
  \/ \E stmt \in SqlStatements : SqlBeforeExecute(stmt)
  \/ \E ev \in {"after", "error"}, outcome \in SqlOutcomes : SqlAfterExecute(ev, outcome)
  \/ \E failed \in BOOLEAN, skipAfter \in BOOLEAN : ViewEnd(failed, skipAfter)
  \/ \E options \in BOOLEAN : LogRequestEnd(options)
  \/ TeardownRequest


\* ============================================================== thread pools
\* concurrent.futures.ThreadPoolExecutor and ContextAwareThreadPoolExecutor
\* (src/utils/executors.py), with threading.Thread.__init__ as it is or
\* replaced by the context-aware wrapper (src/core/context_propagation.py).
\* submit() queues the task and starts a worker thread only when no worker
\* is idle and fewer than max_workers exist; a worker runs every task it
\* takes inside the one Context its thread was started in.

Parents == {"main", "p2"}
Workers == {1, 2}
TaskIds == 1..MaxTasks

\* What a parent binds with set_trace_id, and what a task binds.
ParentValue(pa) == <<"parent", pa>>
TaskValue(id) == <<"task", id>>
TaskValues == {TaskValue(id) : id \in TaskIds}

\* What a task does: it returns, it binds a value and returns, or it binds a
\* value and raises.
Behaviours == {"returns", "binds", "raises"}

NoTask == [parent |-> "none", does |-> "none", submitCtx |-> EmptyCtx]
NotRun == [worker |-> 0, observed |-> EmptyCtx, dirty |-> FALSE, clearFailed |-> FALSE]

\* The Context of a thread created now by parent pa: a copy of the
\* parent's when Thread.__init__ is the wrapper (the pool passes target=),
\* else an empty one.
WorkerContext(pa) == IF poolPatched THEN copy_context(pa, parentCtx[pa]) ELSE EmptyCtx

\* What fn(*args, **kwargs) gives: a result or an exception of the task.
TaskOutcome(id) == IF tasks[id].does = "raises" THEN <<"exception", id>> ELSE <<"result", id>>

\* wrapped_fn with clear_context() called without the inner try / except.
wrapped_fn_unguarded(outcome, clearFails) ==
  IF clearFails THEN <<"exception", 0>> ELSE outcome

\* wrapped_fn / wrapper: try: return fn(...) finally: try:
\* logger.clear_context() except Exception: pass
wrapped_fn(outcome, clearFails) == outcome

\* The worker's bindings after the task: cleared by the finally block of a
\* context-aware submit, unless clear_context() raised.
AfterTask(c, clearFails) ==
  IF poolAware /\ ~clearFails THEN ClearedCtx ELSE c

\* A submitting thread calls logger.set_trace_id.
ParentSetTraceId(pa) ==
  /\ OnlyPool
  /\ parentCtx[pa]["trace"] = Absent
  /\ parentCtx' = [parentCtx EXCEPT ![pa] = bind_contextvars(@, "trace", ParentValue(pa))]
  /\ UNCHANGED <<poolPatched, poolAware, max_workers, workerCtx, workerState,
                 idle_semaphore, work_queue, tasks, future, ran, workerDirty>>

\* executor.submit(fn) by parent pa: the work item is queued, then
\* _adjust_thread_count(): nothing when the idle semaphore can be taken,
\* else a new worker thread while fewer than max_workers exist.
Submit(pa, does) ==
  /\ OnlyPool
  /\ \E id \in TaskIds :
       /\ tasks[id] = NoTask
       /\ \A j \in TaskIds : j < id => tasks[j] # NoTask
       /\ tasks' = [tasks EXCEPT ![id] = [parent |-> pa, does |-> does,
                                         submitCtx |-> parentCtx[pa]]]
       /\ work_queue' = Append(work_queue, id)
  /\ LET created == {w \in Workers : workerState[w] = "alive"}
     IN IF idle_semaphore > 0
          THEN /\ idle_semaphore' = idle_semaphore - 1
               /\ UNCHANGED <<workerCtx, workerState>>
        ELSE IF Cardinality(created) < max_workers
          THEN LET w == CHOOSE x \in Workers \ created :
                          \A y \in Workers \ created : x <= y
               IN /\ workerState' = [workerState EXCEPT ![w] = "alive"]
                  /\ workerCtx' = [workerCtx EXCEPT ![w] = WorkerContext(pa)]
                  /\ UNCHANGED idle_semaphore
        ELSE UNCHANGED <<workerCtx, workerState, idle_semaphore>>
  /\ UNCHANGED <<poolPatched, poolAware, max_workers, parentCtx, future, ran,
                 workerDirty>>

\* _worker: work_queue.get(), work_item.run() and the release of the idle
\* semaphore. The task sees the worker's bindings, may bind a value, returns
\* or raises; a context-aware executor then calls clear_context().
RunTask(w, clearFails) ==
  /\ OnlyPool
  /\ workerState[w] = "alive"
  /\ work_queue # <<>>
  /\ clearFails => poolAware
  /\ LET id == Head(work_queue)
         c == workerCtx[w]
         after == IF tasks[id].does # "returns" THEN bind_contextvars(c, "trace", TaskValue(id))
                  ELSE c
     IN /\ ran' = [ran EXCEPT ![id] = [worker |-> w, observed |-> c,
                                       dirty |-> workerDirty[w],
                                       clearFailed |-> clearFails]]
        /\ workerCtx' = [workerCtx EXCEPT ![w] = AfterTask(after, clearFails)]
        /\ future' = [future EXCEPT
                        ![id] = IF poolAware
                                  THEN wrapped_fn(TaskOutcome(id), clearFails)
                                  ELSE TaskOutcome(id)]
  /\ workerDirty' = [workerDirty EXCEPT ![w] = clearFails]
  /\ work_queue' = Tail(work_queue)
  /\ idle_semaphore' = idle_semaphore + 1
  /\ UNCHANGED <<poolPatched, poolAware, max_workers, parentCtx, workerState, tasks>>

InitPool ==
  /\ poolPatched \in BOOLEAN
  /\ poolAware \in BOOLEAN
  /\ max_workers \in Workers
  \* "main" imported the logger (service block bound); "p2" is a thread that
  \* has set a trace id of its own.
  /\ parentCtx = [pa \in Parents |->
                    IF pa = "main" THEN bind_contextvars(EmptyCtx, "service", ConfigService)
                    ELSE bind_contextvars(EmptyCtx, "trace", ParentValue(pa))]
  /\ workerCtx = [w \in Workers |-> EmptyCtx]
  /\ workerState = [w \in Workers |-> "none"]
  /\ idle_semaphore = 0
  /\ work_queue = <<>>
  /\ tasks = [id \in TaskIds |-> NoTask]
  /\ future = [id \in TaskIds |-> <<"pending", id>>]
  /\ ran = [id \in TaskIds |-> NotRun]
  /\ workerDirty = [w \in Workers |-> FALSE]

QuietPool == InitPool /\ ~poolPatched /\ ~poolAware /\ max_workers = 1

NextPool ==
  \/ \E pa \in Parents : ParentSetTraceId(pa)
  \/ \E pa \in Parents, does \in Behaviours : Submit(pa, does)
  \/ \E w \in Workers, clearFails \in BOOLEAN : RunTask(w, clearFails)

\* ============================================================ specifications

\* Each part starts from the state after construction; under the
\* specification of one part the configuration of the others is fixed.

\* ============================================ module-level propagation switch
\* src/core/context_propagation.py: enable_context_propagation and
\* disable_context_propagation keep their own flag and install their own
\* wrapper; LogContext.enable_propagation / disable_propagation
\* (src/core/context.py) keep _propagation_enabled.

enable_context_propagation ==
  /\ OnlyProp
  /\ steps < MaxSteps
  /\ IF ~context_propagation_enabled
       THEN /\ thread_init' = "module_wrapper"
            /\ context_propagation_enabled' = TRUE
       ELSE UNCHANGED <<thread_init, context_propagation_enabled>>
  /\ op' = [Done("enable_context_propagation", "main") EXCEPT
              !.dirty = ~context_propagation_enabled]
  /\ steps' = steps + 1
  /\ UNCHANGED <<propagation_enabled, status, ctxOf, heap, expected, propagated,
                 nextUuid, lastRec, explicitIds>>

disable_context_propagation ==
  /\ OnlyProp
  /\ steps < MaxSteps
  /\ IF context_propagation_enabled
       THEN /\ thread_init' = "original"
            /\ context_propagation_enabled' = FALSE
       ELSE UNCHANGED <<thread_init, context_propagation_enabled>>
  /\ op' = [Done("disable_context_propagation", "main") EXCEPT
              !.dirty = context_propagation_enabled]
  /\ steps' = steps + 1
  /\ UNCHANGED <<propagation_enabled, status, ctxOf, heap, expected, propagated,
                 nextUuid, lastRec, explicitIds>>

\* LogContext.is_propagation_enabled()
is_propagation_enabled == propagation_enabled

\* is_context_propagation_enabled()
is_context_propagation_enabled == context_propagation_enabled

\* threading.Thread.__init__ is one of the two context-aware wrappers.
WrapperInstalled == thread_init \in {"wrapper", "module_wrapper"}

InitProp == context_propagation_enabled = FALSE
QuietProp == InitProp

NextProp ==
  \/ enable_propagation
  \/ disable_propagation
  \/ enable_context_propagation
  \/ disable_context_propagation
  \/ \E p \in Threads, c \in Children, form \in Forms : ThreadInit(p, c, form)
  \/ \E c \in Children : ThreadStart(c)

\* ============================================ the validator's error channel
\* validate_log_structure reports an invalid record with
\* logging.getLogger("my.custom.error").error(...): a stdlib record, handed
\* to the handlers of my.custom.error and of its ancestors. A handler that
\* _setup_file_formatters or _setup_console_handler gave a ProcessorFormatter
\* formats a stdlib record by running foreign_pre_chain = pre_chain over the
\* event dict it builds for it, and pre_chain holds validate_log_structure.

\* The formatter of a handler: the ProcessorFormatter of the file handlers,
\* that of the console handler, or a plain logging.Formatter.
FormatterKinds == {"file_processor", "console_processor", "plain"}

\* The keys of the event dict the validator sees: the facade's log_data, or
\* what ProcessorFormatter.format builds for a stdlib record.
EventDictKeys(origin) ==
  IF origin = "facade" THEN {"message", "category", "event"}
  ELSE {"event", "_record", "_from_structlog"}

\* LogModel(**event_dict): message is required; `wellTyped` stands for the
\* values of the fields present having the declared types.
LogModelAccepts(keys, wellTyped) == "message" \in keys /\ wellTyped

\* Whether formatting a stdlib record with this formatter runs
\* validate_log_structure (foreign_pre_chain=pre_chain).
RunsValidator(kind) == kind \in {"file_processor", "console_processor"}

\* error_logger.error(...): the entry is handed to every handler reached.
ErrorLoggerError(pending) ==
  LET RECURSIVE AppendAll(_, _)
      AppendAll(q, hs) ==
        IF hs = {} THEN q
        ELSE LET h == CHOOSE x \in hs : TRUE IN AppendAll(Append(q, h), hs \ {h})
  IN AppendAll(pending, errorHandlers)

\* A facade record reaches validate_log_structure on the structlog chain.
DiagEmit(wellTyped) ==
  /\ OnlyDiag
  /\ diagPending = <<>>
  /\ diagEmits < MaxEmits
  /\ diagEmits' = diagEmits + 1
  /\ diagWritten' = 0
  /\ IF LogModelAccepts(EventDictKeys("facade"), wellTyped)
       THEN /\ diagCalls' = 0
            /\ UNCHANGED diagPending
       ELSE /\ diagCalls' = 1
            /\ diagPending' = ErrorLoggerError(diagPending)
  /\ UNCHANGED errorHandlers

\* A handler formats a diagnostic entry and writes it. Under a
\* ProcessorFormatter the validator runs on the entry's event dict and
\* reports it when LogModel rejects it.
DiagFormat ==
  /\ OnlyDiag
  /\ diagPending # <<>>
  /\ diagCalls < MaxDiag
  /\ diagWritten' = diagWritten + 1
  /\ IF RunsValidator(Head(diagPending))
        /\ ~LogModelAccepts(EventDictKeys("stdlib"), TRUE)
       THEN /\ diagCalls' = diagCalls + 1
            /\ diagPending' = ErrorLoggerError(Tail(diagPending))
       ELSE /\ diagPending' = Tail(diagPending)
            /\ UNCHANGED diagCalls
  /\ UNCHANGED <<errorHandlers, diagEmits>>

InitDiag ==
  /\ errorHandlers \in SUBSET FormatterKinds
  /\ diagPending = <<>>
  /\ diagCalls = 0
  /\ diagWritten = 0
  /\ diagEmits = 0

QuietDiag == InitDiag /\ errorHandlers = {}

NextDiag ==
  \/ \E wellTyped \in BOOLEAN : DiagEmit(wellTyped)
  \/ DiagFormat

\* ====================================================== logged request bodies
\* src/utils/flask_hooks.py: _extract_request_body, called by
\* _log_request_start for the "body" of the pre-handling http record.

Users == {"alice", "bob"}
Passwords == {"hunter2", "s3cret"}
NoPassword == "none"

\* What a request is sent with: a JSON object with a user field and, maybe,
\* a password field; a text that is not JSON; a multipart form; nothing.
BodyKinds == {"json", "text", "multipart", "empty"}
RequestBodies ==
  {[kind |-> "empty", user |-> "alice", password |-> NoPassword]} \cup
  [kind : BodyKinds \ {"empty"}, user : Users, password : Passwords \cup {NoPassword}]

\* encode_to_base64(string): string.encode("utf-8") exists on a str only;
\* the result of base64 is a function of the string, and a different text.
encode_to_base64(arg) ==
  IF arg[1] = "str" THEN [raised |-> FALSE, value |-> <<"base64", arg[2]>>]
  ELSE [raised |-> TRUE, value |-> <<"AttributeError">>]

\* _extract_request_body. JSON branch: req_body = json.loads(req_body) has
\* rebound req_body to the parsed object before
\* req_body["password"] = encode_to_base64(["password"]) evaluates its right
\* side; `except Exception: pass` then returns the parsed object as it is.
extract_request_body(b) ==
  IF b.kind = "multipart" THEN [form |-> b, files |-> <<>>]
  ELSE IF b.kind \in {"empty", "text"} THEN b
  ELSE LET parsed == [b EXCEPT !.kind = "object"]
       IN IF b.password = NoPassword THEN parsed
          ELSE LET enc == encode_to_base64(<<"list", "password">>)
               IN IF enc.raised THEN parsed
                  ELSE [parsed EXCEPT !.password = enc.value]

BodyRequests == {1, 2}
NotLogged == [kind |-> "not logged"]

\* _log_request_start: logger.info(..., req={..., "body": _extract_request_body(request)}).
LogRequestBody(i) ==
  /\ OnlyBody
  /\ logged[i] = NotLogged
  /\ logged' = [logged EXCEPT ![i] = extract_request_body(body[i])]
  /\ UNCHANGED body

InitBody ==
  /\ body \in [BodyRequests -> RequestBodies]
  /\ logged = [i \in BodyRequests |-> NotLogged]

QuietBody ==
  /\ body = [i \in BodyRequests |-> [kind |-> "empty", user |-> "alice", password |-> NoPassword]]
  /\ logged = [i \in BodyRequests |-> NotLogged]

NextBody == \E i \in BodyRequests : LogRequestBody(i)

QuietQueue == InitQueue /\ queue_size = -1
QuietRot == InitRot /\ backupCount = [b \in Bases |-> 1]
QuietCfg == InitCfg /\ yamlUse = "absent" /\ ~asyncLoaded

\* The context store, propagation and the facade log call.
InitSpecCtx == InitCtx /\ QuietQueue /\ QuietRot /\ QuietCfg /\ QuietCall /\ QuietTrace /\ QuietReq /\ QuietPool /\ QuietProp /\ QuietDiag /\ QuietBody
SpecCtx == InitSpecCtx /\ [][NextCtx]_vars

\* The queued delivery pipeline.
InitSpecQueue == InitCtx /\ InitQueue /\ QuietRot /\ QuietCfg /\ QuietCall /\ QuietTrace /\ QuietReq /\ QuietPool /\ QuietProp /\ QuietDiag /\ QuietBody
SpecQueue == InitSpecQueue /\ [][NextQueue]_vars

\* The same pipeline with the threads scheduled fairly: the worker thread and
\* the thread running the exit hook each take the step they can take.
FairSpecQueue ==
  /\ SpecQueue
  /\ WF_vars(WorkerDequeue) /\ WF_vars(WorkerHandle)
  /\ WF_vars(HookStart) /\ WF_vars(HookJoin)

\* The rotating archival sink.
InitSpecRot == InitCtx /\ QuietQueue /\ InitRot /\ QuietCfg /\ QuietCall /\ QuietTrace /\ QuietReq /\ QuietPool /\ QuietProp /\ QuietDiag /\ QuietBody
SpecRot == InitSpecRot /\ [][NextRot]_vars

\* Several rotating sinks in the same directories, with failing file operations.
InitSpecArch == InitCtx /\ QuietQueue /\ InitArch /\ QuietCfg /\ QuietCall /\ QuietTrace /\ QuietReq /\ QuietPool /\ QuietProp /\ QuietDiag /\ QuietBody
SpecArch == InitSpecArch /\ [][NextArch]_vars

\* Configuration: configure_logger calls, LogContext constructions and the
\* writes of callers and of the listener thread.
InitSpecCfg == InitCtx /\ QuietQueue /\ QuietRot /\ InitCfg /\ QuietCall /\ QuietTrace /\ QuietReq /\ QuietPool /\ QuietProp /\ QuietDiag /\ QuietBody
SpecCfg == InitSpecCfg /\ [][NextCfg]_vars

\* One facade call over all its arguments.
InitSpecCall == InitCtx /\ QuietQueue /\ QuietRot /\ QuietCfg /\ InitCall /\ QuietTrace /\ QuietReq /\ QuietPool /\ QuietProp /\ QuietDiag /\ QuietBody
SpecCall == InitSpecCall /\ [][NextCall]_vars

\* The stack parser's functions over bounded texts and exceptions.
InitSpecTrace ==
  InitCtx /\ QuietQueue /\ QuietRot /\ QuietCfg /\ QuietCall /\ InitTrace /\ QuietReq /\ QuietPool /\ QuietProp /\ QuietDiag /\ QuietBody
SpecTrace == InitSpecTrace /\ [][NextTrace]_vars

\* Requests handled one after another on one thread.
InitSpecReq ==
  InitCtx /\ QuietQueue /\ QuietRot /\ QuietCfg /\ QuietCall /\ QuietTrace /\ InitReq /\ QuietPool /\ QuietProp /\ QuietDiag /\ QuietBody
SpecReq == InitSpecReq /\ [][NextReq]_vars

\* Tasks submitted to a thread pool.
InitSpecPool ==
  InitCtx /\ QuietQueue /\ QuietRot /\ QuietCfg /\ QuietCall /\ QuietTrace /\ QuietReq /\ InitPool /\ QuietProp /\ QuietDiag /\ QuietBody
SpecPool == InitSpecPool /\ [][NextPool]_vars

\* The two propagation switches, called in any order.
InitSpecProp ==
  InitCtx /\ QuietQueue /\ QuietRot /\ QuietCfg /\ QuietCall /\ QuietTrace /\ QuietReq /\ QuietPool /\ InitProp /\ QuietDiag /\ QuietBody
SpecProp == InitSpecProp /\ [][NextProp]_vars

\* The validator and the handlers of its error channel.
InitSpecDiag ==
  InitCtx /\ QuietQueue /\ QuietRot /\ QuietCfg /\ QuietCall /\ QuietTrace /\ QuietReq /\ QuietPool /\ QuietProp /\ InitDiag /\ QuietBody
SpecDiag == InitSpecDiag /\ [][NextDiag]_vars

\* Two requests and the bodies their pre-handling records carry.
InitSpecBody ==
  InitCtx /\ QuietQueue /\ QuietRot /\ QuietCfg /\ QuietCall /\ QuietTrace /\ QuietReq /\ QuietPool /\ QuietProp /\ QuietDiag /\ InitBody
SpecBody == InitSpecBody /\ [][NextBody]_vars

Init == InitCtx /\ InitQueue /\ InitRot /\ InitCfg /\ InitCall /\ InitTrace /\ InitReq /\ InitPool /\ InitProp /\ InitDiag /\ InitBody
Next == NextCtx \/ NextQueue \/ NextRot \/ NextCfg \/ NextCall \/ NextTrace \/ NextReq \/ NextPool \/ NextArch \/ NextProp \/ NextDiag \/ NextBody
Spec == Init /\ [][Next]_vars

\* ==================================================================== claims

\* C1: with propagation enabled, a thread created with a target runs on a
\* by-value snapshot of its creator's context. Every thread sees exactly the
\* bindings of its snapshot as changed by its own binds and clears: what the
\* creator bound before the spawn is there, and no later bind or
\* clear_context of the creator, of a child or of a sibling shows up in it.
C1_SnapshotIsolation ==
  \A t \in Threads : status[t] # "unborn" => View(t) = expected[t]

\* A running child that inherited an explicit trace id which its creator has
\* since cleared.
C1_Witness ==
  \E c \in Children :
    /\ status[c] = "running" /\ propagated[c]
    /\ explicitIds[c].trace = Absent
    /\ View(c)["trace"] \in ExplicitIds
    /\ View("main")["trace"] = Absent

\* C4: no call of a facade log method raises to its caller, whatever the
\* message, the error argument and the extra keyword fields.
C4_LogNeverRaises == op.outcome # "raised"

\* C5: after clear_context() returns, the calling thread's context holds the
\* service block with name and environment populated, and nothing else.
C5_ClearLeavesService ==
  op.kind = "clear_context" =>
    LET v == View(op.thread)
    IN /\ v["service"] # Absent
       /\ v["service"][2] # "" /\ v["service"][3] # ""
       /\ \A k \in Keys \ {"service"} : v[k] = Absent

\* A clear_context that removed something (ids, or a replaced service block).
C5_Witness == op.kind = "clear_context" /\ op.dirty

Drained == log_queue = <<>> /\ workerPc # "handling"

\* C2: once the pipeline has drained, the sink has received every submitted
\* record exactly once.
C2_ExactlyOnce ==
  Drained => \A r \in submitted : Count(r, sinkRecv["file"]) = 1

\* C8: a record submitted while the bounded queue is full is not discarded
\* (the producer waits for a slot and then enqueues it).
C8_NoDiscard == discarded = {}

\* C9: when the shutdown hook has ended, every record enqueued before it
\* started has been forwarded, the queue is drained and no worker is active.
C9_HookDrains ==
  hookPc \in {"done", "raised"} =>
    /\ \A r \in atHook : Count(r, sinkRecv["file"]) = 1
    /\ log_queue = <<>>
    /\ workerPc = "stopped"

\* C10: a shutdown hook that waits for the worker ends, also when a sink
\* has stalled.
C10_ShutdownTerminates == (hookPc = "joining") ~> (hookPc = "done")

Min(a, b) == IF a <= b THEN a ELSE b

\* C3: after n rollovers of a working file with retention r, the archive
\* holds exactly min(n, r) files of that base name, the most recently
\* rotated ones.
C3_Retention ==
  \A b \in Bases :
    LET mine == ArchiveOf(archive, b)
        n == rollovers[b]
        k == Min(n, backupCount[b])
    IN /\ Cardinality(mine) = k
       /\ {f.mtime : f \in mine} = {rotated[b][i] : i \in (n - k + 1)..n}

\* C11: in queued mode the listener thread is running, every write of a log
\* call made in queued mode is performed by it, and no two such writes into
\* the same file are in progress at once.
C11_SingleWriter ==
  mode = "queued" =>
    /\ workerAlive
    /\ \A w \in writing : w.queued => w.by = "worker"
    /\ \A w1, w2 \in writing :
         (w1.queued /\ w2.queued /\ w1.h.file = w2.h.file) => w1 = w2

\* C12: configure_logger selects queued mode by its argument when one is
\* given, else by the configuration file's value when it sets one, else
\* exactly when an asynchronous runtime is loaded.
C12_ModeSelection ==
  lastCfg.arg # "none" =>
    lastCfg.queued =
      (IF lastCfg.arg # "None" THEN lastCfg.arg = "True"
       ELSE IF yamlUse \in {"True", "False"} THEN yamlUse = "True"
       ELSE asyncLoaded)

\* C13: every enable call leaves the context-aware wrapper installed and
\* every disable call the original constructor, whatever was installed
\* before; a repeated enable or disable changes nothing; and no other
\* operation changes what is installed. So the constructor is the wrapper
\* exactly when the last call was enable, and wrappers never nest.
C13_Idempotent ==
  [][/\ op'.kind = "enable_propagation" =>
          /\ thread_init' = "wrapper" /\ propagation_enabled'
          /\ propagation_enabled => UNCHANGED <<thread_init, propagation_enabled>>
     /\ op'.kind = "disable_propagation" =>
          /\ thread_init' = "original" /\ ~propagation_enabled'
          /\ ~propagation_enabled => UNCHANGED <<thread_init, propagation_enabled>>
     /\ op'.kind \notin {"enable_propagation", "disable_propagation"} =>
          UNCHANGED <<thread_init, propagation_enabled>>
    ]_vars

\* An enable call made while the wrapper was installed already.
C13_Witness ==
  op.kind = "enable_propagation" /\ ~op.dirty /\ thread_init = "wrapper"

\* C14: a thread created while propagation is enabled holds, from its
\* creation on, the snapshot of its creator's context, however its body is
\* supplied (target by keyword, target positionally, run() overridden).
C14_EveryThreadSnapshot ==
  [][\A c \in Children :
       (status[c] = "unborn" /\ status'[c] = "created" /\ propagation_enabled) =>
         heap'[ctxOf'[c]] = heap[ctxOf[op'.thread]]
    ]_vars

\* The category the rules of C15 give, first match first.
C15_Rules(d) ==
  <<<<d.error, "error">>,
    <<d.db[1] # "none", "database">>,
    <<d.req \/ d.resp, "http">>,
    <<d.custom[1] = "dict" /\ d.custom[2] >= 2, "database">>,
    <<d.level \in {"error", "critical"}, "error">>,
    <<d.level = "warning", "validation">>,
    <<TRUE, "business">>>>

C15_FirstMatch(d) ==
  LET rules == C15_Rules(d)
      i == CHOOSE k \in 1..Len(rules) :
             rules[k][1] /\ \A j \in 1..(k - 1) : ~rules[j][1]
  IN rules[i][2]

\* C15: a call without a category gets the category of the first matching
\* rule (error field, database field, request or response, custom mapping
\* with two keywords, level error/critical, level warning, business); a
\* category the caller gives is kept.
C15_CategoryInference ==
  result.done =>
    result.category = IF call.category # "none" THEN call.category
                      ELSE C15_FirstMatch(call)

\* A call without category, error and db, whose custom mapping decides
\* against the level rule.
C15_Witness ==
  /\ result.done /\ call.category = "none" /\ ~call.error
  /\ call.db[1] = "none" /\ ~call.req /\ ~call.resp
  /\ call.custom = <<"dict", 2>> /\ call.level = "warning"
  /\ result.category = "database"

\* The statement type of the db argument, "absent" when it has none.
C16_StatementType(d) ==
  IF d.db[1] = "none" \/ d.db[2] \in {"absent", "None"} THEN "absent" ELSE d.db[2]

\* C16: a call without an event emits a record whose event is derived from
\* the category: error_<level>, database_<statement type in lower case> or
\* database_query without a statement type, http_request / http_response /
\* http_transaction, audit_action, performance_metric, validation_check,
\* otherwise business_<level>.
C16_DefaultEvent ==
  (result.done /\ call.event[1] = "none") =>
    /\ result.emitted
    /\ result.event =
         CASE result.category = "error" -> <<"error", call.level>>
           [] result.category = "database" ->
                IF C16_StatementType(call) = "absent" THEN <<"database", "query">>
                ELSE <<"database", Lower(C16_StatementType(call))>>
           [] result.category = "http" ->
                IF call.req /\ ~call.resp THEN <<"http", "request">>
                ELSE IF call.resp /\ ~call.req THEN <<"http", "response">>
                ELSE <<"http", "transaction">>
           [] result.category = "audit" -> <<"audit", "action">>
           [] result.category = "performance" -> <<"performance", "metric">>
           [] result.category = "validation" -> <<"validation", "check">>
           [] OTHER -> <<"business", call.level>>

\* The lines of a text in which frame text occurs, in order.
C17_FrameLines(lines) == SelectSeq(lines, LAMBDA l : l.frame # 0)

\* C17: of a text with n frame lines parse_traceback returns n frames, the
\* i-th being file, line and function of the i-th frame line, and
\* extract_error_location returns those of the last one, or None three
\* times when n = 0.
C17_ParseAllFrames ==
  out.fn = "parse_traceback" =>
    LET fl == C17_FrameLines(tb)
        n == Len(fl)
    IN /\ Len(out.frames) = n
       /\ \A i \in 1..n :
            /\ out.frames[i].file = <<"file", fl[i].frame>>
            /\ out.frames[i].line = <<"line", fl[i].frame>>
            /\ out.frames[i].function = <<"fn", fl[i].frame>>
       /\ out.location =
            IF n = 0 THEN [file |-> None, line |-> None, function |-> None]
            ELSE [file |-> <<"file", fl[n].frame>>, line |-> <<"line", fl[n].frame>>,
                  function |-> <<"fn", fl[n].frame>>]

\* A text with two frame lines next to each other, no source line between.
C17_Witness ==
  /\ out.fn = "parse_traceback" /\ Len(out.frames) >= 2
  /\ \E i \in 1..(Len(tb) - 1) : tb[i].frame # 0 /\ tb[i + 1].frame # 0

\* C18: with a cap k set, stack_frames is the last min(k, n) of the n parsed
\* frames in their order, and when that is at least one frame, the last of
\* them is the reported error_file / error_line / error_function.
C18_LastFrames ==
  (out.fn \in {"format_traceback_string", "format_for_elk"} /\ cap.set) =>
    LET all == parse_traceback(tb)
        n == Len(all)
        m == Min(cap.k, n)
        kept == out.error.stack_frames
    IN /\ kept = SubSeq(all, n - m + 1, n)
       /\ m >= 1 =>
            /\ kept[Len(kept)].file = out.error.error_file
            /\ kept[Len(kept)].line = out.error.error_line
            /\ kept[Len(kept)].function = out.error.error_function

\* C19: the ErrorModel made of an exception that carries a traceback, dumped
\* again, has the exception's class name as error_type and at least one
\* stack frame.
C19_RoundTrip ==
  out.fn = "format_for_elk" =>
    /\ out.error.error_type = exc.cls.name
    /\ out.error.stack_frames # <<>>

\* C20: once the teardown hook has run, after a request that succeeded or
\* failed, the thread's context is the cleared one, and every value a record
\* of a request carries, the configured service block aside, was bound
\* during that request: none is left from an earlier one.
C20_TeardownClears ==
  /\ (reqPc = "idle" /\ reqNo > 0) => reqCtx = ReqClearedCtx
  /\ \A rec \in reqRecords : \A k \in ReqKeys :
       rec[k] \notin {Absent, ConfigService} => <<k, rec[k]>> \in reqBound

\* A record of the second request, after a first request that failed and
\* left ids of its own and another service name or a statement bound.
C20_Witness ==
  /\ reqNo = 2 /\ reqPrev.outcome = "failed"
  /\ \E k \in {"trace", "transaction"} : <<k, RequestId(1)>> \in reqPrev.left
  /\ \E k \in ReqKeys, v \in {ServiceInfo("svc-b", environment), Statement(1)} :
       <<k, v>> \in reqPrev.left
  /\ \E rec \in reqRecords : rec["trace"] # Absent

\* C21: once the "after" or the "error" listener has returned, the three
\* stashed keys are absent from the context, whether the record was emitted,
\* lost or never built, and every other key bound before the "before" event
\* has the value it had then.
C21_StashCleared ==
  reqSql.phase \in {"after", "error"} =>
    /\ \A k \in StashKeys : reqCtx[k] = Absent
    /\ \A k \in ReqKeys \ StashKeys :
         reqSql.pre[k] # Absent => reqCtx[k] = reqSql.pre[k]

\* A listener that raised before its facade call, with service, ids and a
\* user key bound before the statement.
C21_Witness ==
  /\ reqSql.phase \in {"after", "error"} /\ reqSql.stmt = "SELECT"
  /\ reqRecords = {r \in reqRecords : r["sql_statement"] = Absent}
  /\ \A k \in ReqKeys \ StashKeys : reqSql.pre[k] # Absent
  /\ reqSql.pre["user"] = UserValue(reqNo)

\* C22: with a context-aware executor, the Future of every task that ran
\* holds the task's own result or exception, also when clear_context()
\* failed; a worker whose last clear did not fail holds the cleared context
\* once it has run a task, and a task that follows it observes no value
\* bound by an earlier task.
C22_PoolCleanup ==
  poolAware =>
    /\ \A id \in TaskIds : ran[id] # NotRun => future[id] = TaskOutcome(id)
    /\ \A id \in TaskIds :
         (ran[id] # NotRun /\ ~ran[id].dirty) =>
            \A k \in Keys : ran[id].observed[k] \notin TaskValues
    /\ \A w \in Workers :
         ((\E id \in TaskIds : ran[id].worker = w) /\ ~workerDirty[w]) =>
            workerCtx[w] = ClearedCtx

\* A task that bound a value and raised, followed on the same worker by a
\* task whose own clearing failed.
C22_Witness ==
  /\ poolAware
  /\ \E i, j \in TaskIds :
       /\ i < j /\ ran[i] # NotRun /\ ran[j] # NotRun /\ ran[i].worker = ran[j].worker
       /\ tasks[i].does = "raises" /\ ~ran[j].dirty
       /\ ran[j].clearFailed /\ future[j] = TaskOutcome(j)

\* C23: with propagation enabled, every task run by a plain
\* ThreadPoolExecutor observes the bindings its submitting thread had when
\* it submitted the task.
C23_PoolPropagation ==
  (poolPatched /\ ~poolAware) =>
    \A id \in TaskIds : ran[id] # NotRun => ran[id].observed = tasks[id].submitCtx

\* C24: whichever of the listing of the working directory, the move into
\* the archive, the reading of a modification time and the deletion of an
\* archived file fail, the rollover returns normally.
C24_FailuresSwallowed == rollResult.ended # "raised"

\* A rollover that returned although the listing of the working directory
\* and the reading of a modification time both failed in it.
C24_Witness ==
  /\ rollResult.ended = "returned"
  /\ {"list", "mtime"} \subseteq rollResult.failed

\* C28: a rollover of the sink of one base name leaves in place every file
\* of the other sinks, active or rotated, in the working directory and in
\* the archive, and leaves its own active file in the working directory.
C28_OwnFilesOnly ==
  [][\A b \in ArchBases :
       rollovers'[b] # rollovers[b] =>
         /\ \E f \in logdir' : f.name = b
         /\ \A f \in logdir : OwnerOf(f.name) # b => f \in logdir'
         /\ \A f \in archive : OwnerOf(f.name) # b => f \in archive'
    ]_vars

\* The records a sink has received.
Received(s) == {sinkRecv[s][i] : i \in 1..Len(sinkRecv[s])}

\* C25: a record the worker has handled is in a sink exactly when its level
\* is at or above the sink's level (what Logger.callHandlers does in
\* synchronous mode); with an unbounded queue, once the queue has drained,
\* each sink holds exactly the submitted records at or above its level.
C25_QueuedLevelFilter ==
  /\ \A s \in Sinks, r \in submitted \ (Pending \cup discarded) :
       r \in Received(s) <=> LevelNo(r[3]) >= LevelNo(SinkLevel(s))
  /\ (queue_size <= 0 /\ Pending \ {Sentinel} = {}) =>
       \A s \in Sinks :
         Received(s) = {r \in submitted : LevelNo(r[3]) >= LevelNo(SinkLevel(s))}

\* An unbounded queue that has drained, with a record below the level of
\* the error sink and one at it.
C25_Witness ==
  /\ queue_size <= 0
  /\ Pending = {}
  /\ \E r \in submitted : r[3] = "info" /\ r \in Received("file") /\ r \notin Received("error_file")
  /\ \E r \in submitted : r[3] = "error" /\ r \in Received("error_file")

\* C26: is_propagation_enabled() and is_context_propagation_enabled() each
\* return True exactly when threading.Thread.__init__ is a context-aware
\* wrapper.
C26_ReportedIsInstalled ==
  /\ is_propagation_enabled <=> WrapperInstalled
  /\ is_context_propagation_enabled <=> WrapperInstalled

\* C27: every record emitted through the facade carries the service block,
\* on the constructing thread, on a thread created under the wrapper and on
\* a thread created without it. (A thread created without the wrapper has
\* the block bound once it has called clear_context or set_service_info,
\* which both bind it; the claim is about the records before that.)
C27_ServiceBlock ==
  \A t \in Threads : lastRec[t] # NoRec => lastRec[t].service # Absent

\* C29: one facade record causes at most one diagnostic entry: the entry
\* written for an invalid record does not itself fail validation and
\* produce a further one, whichever handlers the error channel reaches.
C29_OneDiagnostic == diagCalls <= 1

\* C30: the logged body of a request whose JSON body has a password field
\* does not hold the submitted password, and two such requests that differ
\* only in the password have the same logged body.
C30_PasswordNotLogged ==
  /\ \A i \in BodyRequests :
       (logged[i] # NotLogged /\ body[i].kind = "json" /\ body[i].password \in Passwords) =>
         logged[i].password # body[i].password
  /\ \A i, j \in BodyRequests :
       (/\ logged[i] # NotLogged /\ logged[j] # NotLogged
        /\ body[i].kind = "json" /\ body[j].kind = "json"
        /\ body[i].password \in Passwords /\ body[j].password \in Passwords
        /\ body[i].user = body[j].user) =>
         logged[i] = logged[j]

====
